---- MODULE Spec2Model ----
(***************************************************************************)
(* A model of jointly (hpi-dhc/jointly): the synchronizer session          *)
(* (src/jointly/synchronizer.py), the shake extractor                      *)
(* (src/jointly/shake_extractor.py) and the signal helpers                 *)
(* (src/jointly/helpers.py).                                               *)
(*                                                                         *)
(* Time is counted in integer ticks (the pandas nanosecond), sample values *)
(* are integers, and every quotient the code computes in floating point is *)
(* kept as an exact fraction <<numerator, denominator>>.  The fraction     *)
(* <<0, 0>> is what numpy returns for 0.0 / 0.0: NaN.                      *)
(***************************************************************************)
EXTENDS Integers, Sequences, FiniteSets, TLC

VARIABLES
    input,          \* argument of the helper under check (helper specifications)
    output,         \* what the helper returned or raised
    sources,        \* Synchronizer.sources
    ref_signals,    \* Synchronizer.ref_signals
    sampling_freq,  \* Synchronizer.sampling_freq, kept as its period int(1e9 / f)
    extractor,      \* Synchronizer.extractor (a ShakeExtractor)
    ref_source_name,\* Synchronizer.ref_source_name
    last,           \* the last call on the session and how it ended
    returned        \* what the caller holds: the SyncParams the last
                    \* get_sync_params call returned, until a calculation
                    \* runs in any later call that does not return them

vars == <<input, output, sources, ref_signals, sampling_freq, extractor,
          ref_source_name, last, returned>>
helperVars == <<input, output>>
sessionVars == <<sources, ref_signals, sampling_freq, extractor,
                 ref_source_name, last, returned>>

----------------------------------------------------------------------------
(* Python outcomes: a call returns a value or raises an exception.          *)

Return(v) == [returned |-> v]
Raise(e) == [raised |-> e]
NotCalled == [pending |-> TRUE]
Returned(r) == "returned" \in DOMAIN r
Raised(r) == "raised" \in DOMAIN r
RaisedExc(r, e) == Raised(r) /\ r.raised = e

----------------------------------------------------------------------------
(* Integer and fraction arithmetic.                                         *)

Abs(n) == IF n < 0 THEN -n ELSE n

Sign(n) == IF n < 0 THEN -1 ELSE IF n > 0 THEN 1 ELSE 0

\* C-style division, rounding toward zero (the float -> int64 cast of numpy)
TruncDiv(a, b) == Sign(a) * Sign(b) * (Abs(a) \div Abs(b))

\* floor of a / b for b > 0
FloorDiv(a, b) == a \div b

RECURSIVE SumSeq(_)
SumSeq(s) == IF s = <<>> THEN 0 ELSE Head(s) + SumSeq(Tail(s))

RECURSIVE Gcd(_, _)
Gcd(a, b) == IF b = 0 THEN a ELSE Gcd(b, a % b)

\* the fraction n / d, d # 0, in lowest terms with a positive denominator
Frac(n, d) ==
    LET g == Gcd(Abs(n), Abs(d))
    IN  <<Sign(d) * (n \div g), Abs(d) \div g>>

IsNaN(q) == q[2] = 0

FracEq(p, q) == ~IsNaN(p) /\ ~IsNaN(q) /\ p[1] * q[2] = q[1] * p[2]

FracLeq(p, q) == p[1] * q[2] <= q[1] * p[2]

SetMax(S) == CHOOSE x \in S : \A y \in S : y <= x

SetMin(S) == CHOOSE x \in S : \A y \in S : x <= y

----------------------------------------------------------------------------
(* Bounds of the helper specifications.                                     *)

MaxLen == 3         \* longest list handed to normalize
MaxSample == 3      \* sample values range over -MaxSample..MaxSample
MaxStart == 2       \* segment starts range over 0..MaxStart, and the test's 11
MaxPad == 3         \* a segment's end is its start plus 0..MaxPad
MaxShift == 1       \* timeshifts range over -MaxShift..MaxShift, and the test's 5, 10

----------------------------------------------------------------------------
(* helpers.normalize                                                        *)

\* n * (x - mean(x)): the centered list, scaled by its length to stay integral
Centered(x) == [i \in 1..Len(x) |-> Len(x) * x[i] - SumSeq(x)]

normalize_noabs(x) ==
    IF Len(x) = 0 THEN Raise("ValueError")
    ELSE LET xn == Centered(x)
             m == SetMax({xn[i] : i \in 1..Len(x)})
         IN  Return([i \in 1..Len(x) |-> <<xn[i], m>>])

\* xn = x - np.mean(x); xn = xn / np.max(np.abs(xn)).  np.max of an empty array
\* raises ValueError; a division by 0.0 raises nothing: 0.0 / 0.0 is NaN.
normalize(x) ==
    IF Len(x) = 0 THEN Raise("ValueError")
    ELSE LET xn == Centered(x)
             m == SetMax({Abs(xn[i]) : i \in 1..Len(x)})
         IN  Return([i \in 1..Len(x) |-> <<xn[i], m>>])

----------------------------------------------------------------------------
(* helpers.get_stretch_factor, Synchronizer._get_stretch_factor             *)

get_stretch_factor_ends(segments, timeshifts) ==
    LET old_length == segments.second.end - segments.first.start
        new_length == old_length + timeshifts.second - timeshifts.first
    IN  IF old_length = 0 THEN Raise("ZeroDivisionError")
        ELSE Return(Frac(new_length, old_length))

\* Timedelta / Timedelta is a float; a zero divisor raises ZeroDivisionError
get_stretch_factor(segments, timeshifts) ==
    LET old_length == segments.second.start - segments.first.start
        new_length == old_length + timeshifts.second - timeshifts.first
    IN  IF old_length = 0 THEN Raise("ZeroDivisionError")
        ELSE Return(Frac(new_length, old_length))

----------------------------------------------------------------------------
(* helpers.verify_segments, Synchronizer._verify_segments                   *)

Parts == <<"start", "end">>

\* segments[col][segment][part] raises KeyError
KeyMissing(segments, col, segment, part) ==
    \/ col \notin DOMAIN segments
    \/ segment \notin DOMAIN segments[col]
    \/ part \notin DOMAIN segments[col][segment]

\* the k-th (from 0) lookup of: for col: for segment: for part
Lookup(columns, segment_names, k) ==
    [col |-> columns[(k \div (2 * Len(segment_names))) + 1],
     segment |-> segment_names[((k \div 2) % Len(segment_names)) + 1],
     part |-> Parts[(k % 2) + 1]]

verify_segments_startonly(columns, segments, segment_names) ==
    LET n == Len(columns) * Len(segment_names) * 2
        bad == {k \in 0..(n - 1) :
                    LET l == Lookup(columns, segment_names, k)
                    IN  l.part = "start"
                        /\ KeyMissing(segments, l.col, l.segment, l.part)}
    IN  IF bad = {} THEN Return("None")
        ELSE [raised |-> "ShakeMissingException",
              message |-> Lookup(columns, segment_names, SetMin(bad))]

\* raises at the first failing lookup, naming its segment, column and part
verify_segments(columns, segments, segment_names) ==
    LET n == Len(columns) * Len(segment_names) * 2
        bad == {k \in 0..(n - 1) :
                    LET l == Lookup(columns, segment_names, k)
                    IN  KeyMissing(segments, l.col, l.segment, l.part)}
    IN  IF bad = {} THEN Return("None")
        ELSE [raised |-> "ShakeMissingException",
              message |-> Lookup(columns, segment_names, SetMin(bad))]

----------------------------------------------------------------------------
(* Specifications of the helpers: the argument is drawn at Init, the one    *)
(* action applies the helper.                                               *)

IdleSession ==
    /\ sources = <<>>
    /\ ref_signals = <<>>
    /\ sampling_freq = 0
    /\ extractor = <<>>
    /\ ref_source_name = ""
    /\ last = NotCalled
    /\ returned = NotCalled

PartialFns(D, R) == UNION {[S -> R] : S \in SUBSET D}

NormalizeInputs == UNION {[1..n -> (-MaxSample)..MaxSample] : n \in 0..MaxLen}

InitNormalize ==
    /\ input \in NormalizeInputs
    /\ output = NotCalled
    /\ IdleSession

CallNormalize ==
    /\ output = NotCalled
    /\ output' = normalize(input)
    /\ UNCHANGED <<input, sessionVars>>

SpecNormalize == InitNormalize /\ [][CallNormalize]_vars

StartVals == (0..MaxStart) \cup {11}
ShiftVals == ((-MaxShift)..MaxShift) \cup {5, 10}

StretchInputs ==
    {[segments |-> [first |-> [start |-> s1, end |-> s1 + p1],
                    second |-> [start |-> s2, end |-> s2 + p2]],
      timeshifts |-> [first |-> t1, second |-> t2]] :
        s1 \in StartVals, s2 \in StartVals, p1 \in 0..MaxPad, p2 \in 0..MaxPad,
        t1 \in ShiftVals, t2 \in ShiftVals}

InitStretchFactor ==
    /\ input \in StretchInputs
    /\ output = NotCalled
    /\ IdleSession

CallGetStretchFactor ==
    /\ output = NotCalled
    /\ output' = get_stretch_factor(input.segments, input.timeshifts)
    /\ UNCHANGED <<input, sessionVars>>

SpecStretchFactor == InitStretchFactor /\ [][CallGetStretchFactor]_vars

SegmentNames == <<"first", "second">>
VerifyColumns == {"s", "d"}

\* every SyncPairs over the columns s and d with any part, segment or column missing
VerifyInputs ==
    {[columns |-> c, segments |-> s] :
        c \in {<<"s", "d">>, <<"d", "s">>, <<"d">>},
        s \in PartialFns(VerifyColumns,
                         PartialFns({"first", "second"},
                                    PartialFns({"start", "end"}, {0})))}

InitVerify ==
    /\ input \in VerifyInputs
    /\ output = NotCalled
    /\ IdleSession

CallVerifySegments ==
    /\ output = NotCalled
    /\ output' = verify_segments(input.columns, input.segments, SegmentNames)
    /\ UNCHANGED <<input, sessionVars>>

SpecVerify == InitVerify /\ [][CallVerifySegments]_vars

\* name a value once and use it in what follows, as an assignment does
Let(value, In(_)) == In(value)

----------------------------------------------------------------------------
(* Tables.  A Series is a function from its timestamps to its values: a     *)
(* timestamp outside its domain is a missing value (NaN).  A frame is       *)
(* [index, columns, data, den]: the timestamps of its rows, the column      *)
(* names in order, one Series per column and, per column, the denominator   *)
(* normalize divided by (the values kept are the integer numerators).       *)

SeqToSet(s) == {s[i] : i \in 1..Len(s)}

\* the position (from 0) of t in the sorted index S
Rank(S, t) == Cardinality({u \in S : u < t})

\* the timestamp at position k (from 0) of the sorted index S
AtRank(S, k) == CHOOSE t \in S : Rank(S, t) = k

\* the sorted sequence of a set of timestamps
RECURSIVE Sorted(_)
Sorted(S) ==
    IF S = {} THEN <<>>
    ELSE LET least == CHOOSE t \in S : \A u \in S : t <= u
         IN  <<least>> \o Sorted(S \ {least})

\* the values of a Series in index order
Values(series) ==
    LET ts == Sorted(DOMAIN series)
    IN  [i \in 1..Len(ts) |-> series[ts[i]]]

\* np.median of a non-empty list, doubled to stay integral
Median2(val) ==
    LET S == DOMAIN val
        n == Cardinality(S)
        \* the value at sorted position k (from 1), counting equal values
        At(k) == CHOOSE v \in {val[x] : x \in S} :
                    /\ Cardinality({x \in S : val[x] < v}) < k
                    /\ Cardinality({x \in S : val[x] <= v}) >= k
    IN  IF n % 2 = 1 THEN 2 * At((n + 1) \div 2)
        ELSE At(n \div 2) + At((n \div 2) + 1)

----------------------------------------------------------------------------
(* Synchronizer.__init__                                                     *)

SourceNames(srcs) == [i \in 1..Len(srcs) |-> srcs[i].name]

SourceAt(srcs, name) == CHOOSE i \in 1..Len(srcs) : srcs[i].name = name

\* the reference columns, outer-joined on the timestamps, each normalized
\* (np.mean and np.max of a Series skip the missing values)
_prepare_ref_signals(srcs) ==
    LET names == SeqToSet(SourceNames(srcs))
        series == [c \in names |-> srcs[SourceAt(srcs, c)].data]
        norm == [c \in names |-> normalize(Values(series[c])).returned]
        den == [c \in names |-> norm[c][1][2]]
    IN  [index |-> UNION {DOMAIN series[c] : c \in names},
         columns |-> SourceNames(srcs),
         data |-> [c \in names |->
                     IF den[c] = 0 THEN <<>>
                     ELSE [t \in DOMAIN series[c] |->
                             norm[c][Rank(DOMAIN series[c], t) + 1][1]]],
         den |-> den]

\* the median distance between consecutive timestamps, truncated as
\* int(1e9 / frequency) truncates it; 0 when there are fewer than two
\* timestamps (np.median of nothing is NaN)
infer_freq(series) ==
    LET ts == Sorted(DOMAIN series)
        timedeltas == [i \in 1..(Len(ts) - 1) |-> ts[i + 1] - ts[i]]
    IN  IF Len(ts) < 2 THEN 0 ELSE Median2(timedeltas) \div 2

\* the highest frequency is the shortest period; a NaN frequency wins np.amax
get_max_ref_frequency(frame) ==
    LET periods == {infer_freq(frame.data[c]) : c \in SeqToSet(frame.columns)}
    IN  IF 0 \in periods THEN 0 ELSE SetMin(periods)

----------------------------------------------------------------------------
(* helpers.get_equidistant_signals.  The result is a frame on the grid      *)
(* start, start + period, ..., n rows; its Series are keyed by row position *)
(* (from 0) instead of timestamp.                                           *)

\* resample bins are anchored at the start of the day (tick 0), not at the data
FloorTo(t, period) == t - (t % period)

\* Index.get_indexer(method="nearest"): ties go to the later timestamp
Nearest(T, t) ==
    LET before == {u \in T : u <= t}
        after == {u \in T : u >= t}
    IN  IF before = {} THEN SetMin(after)
        ELSE IF after = {} THEN SetMax(before)
        ELSE IF t - SetMax(before) < SetMin(after) - t THEN SetMax(before)
        ELSE SetMin(after)

\* series.resample(freq).nearest(): bin labels from floor(first) to floor(last);
\* a series that already has the frequency is only relabelled, any other is
\* reindexed onto the labels by nearest timestamp
resample_nearest(series, period) ==
    LET T == DOMAIN series
        lo == FloorTo(SetMin(T), period)
        hi == FloorTo(SetMax(T), period)
        labels == {lo + k * period : k \in 0..((hi - lo) \div period)}
        same_freq == /\ Cardinality(T) >= 3
                     /\ \A t \in T : t = SetMax(T) \/ (t + period) \in T
    IN  IF T = {} THEN <<>>
        ELSE IF same_freq
             THEN [l \in labels |-> series[SetMin(T) + (l - lo)]]
             ELSE [l \in labels |-> series[Nearest(T, l)]]

\* the resampled columns are put side by side on the union of their labels and
\* the rows are then renamed, by position, to date_range(min, max, freq) of the
\* input index; set_index raises ValueError when the two lengths differ
get_equidistant_signals(signals, period) ==
    IF period = 0 THEN Raise("ValueError")
    ELSE
    LET cols == SeqToSet(signals.columns)
        res == [c \in cols |-> resample_nearest(signals.data[c], period)]
        U == UNION {DOMAIN res[c] : c \in cols}
        rows == Sorted(U)
        lo == SetMin(signals.index)
        n == ((SetMax(signals.index) - lo) \div period) + 1
    IN  IF Cardinality(U) # n THEN Raise("ValueError")
        ELSE Return([start |-> lo, period |-> period, n |-> n,
                     columns |-> signals.columns, den |-> signals.den,
                     data |-> [c \in cols |->
                                 [k \in {i - 1 : i \in {j \in 1..n : rows[j] \in DOMAIN res[c]}} |->
                                     res[c][rows[k + 1]]]]])

\* frame.index[k]
TimeAt(frame, k) == frame.start + k * frame.period

\* frame.index.get_loc(t, method="nearest"): the nearest row, ties to the later
get_loc_nearest(frame, t) ==
    LET k == FloorDiv(2 * (t - frame.start) + frame.period, 2 * frame.period)
    IN  IF k < 0 THEN 0 ELSE IF k > frame.n - 1 THEN frame.n - 1 ELSE k

----------------------------------------------------------------------------
(* ShakeExtractor.  Its configuration and state are the record              *)
(* [start_window_length, end_window_length, threshold, distance,            *)
(*  min_length, time_buffer, segments]; threshold is a fraction.            *)

\* rows lo..hi of a column as an array of its own: positions from 0
Part(col, lo, hi) ==
    [len |-> hi - lo + 1,
     at |-> [k \in {p - lo : p \in (DOMAIN col) \cap (lo..hi)} |-> col[k + lo]]]

\* scipy.signal.find_peaks(x, height=h): the middle of every plateau that is
\* higher than both its neighbours (a comparison with NaN is false) and at
\* least h high; the first and the last sample are never peaks.  The height
\* is the fraction height[1] / height[2] in the unit of the samples.
find_peaks(x, height) ==
    LET inner == 1..(x.len - 2)
        rises == {l \in inner : /\ {l - 1, l} \subseteq DOMAIN x.at
                                /\ x.at[l - 1] < x.at[l]}
        \* the first row after l that does not continue the plateau of l
        ahead(l) == SetMin({k \in (l + 1)..(x.len - 1) :
                               \/ k = x.len - 1
                               \/ k \notin DOMAIN x.at
                               \/ x.at[k] # x.at[l]})
        falls(l) == /\ ahead(l) \in DOMAIN x.at
                    /\ x.at[ahead(l)] < x.at[l]
        mids == {(l + ahead(l) - 1) \div 2 : l \in {r \in rises : falls(r)}}
    IN  Sorted({m \in mids : x.at[m] * height[2] >= height[1]})

\* a peak more than distance after the peak before it in the list starts a new
\* sequence, any other peak joins the current one
_merge_peak_sequences(peaks, signals, distance) ==
    LET n == Len(peaks)
        starts == {i \in 1..n :
                     \/ i = 1
                     \/ TimeAt(signals, peaks[i - 1]) + distance
                            < TimeAt(signals, peaks[i])}
        stop(b) == SetMin({i - 1 : i \in {j \in starts : j > b}} \cup {n})
    IN  [k \in 1..Cardinality(starts) |->
            SubSeq(peaks, AtRank(starts, k - 1), stop(AtRank(starts, k - 1)))]

\* the elements of a list at the positions of keep, in order
SelectSeqs(seqs, keep) ==
    [k \in 1..Cardinality(keep) |-> seqs[AtRank(keep, k - 1)]]

WindowPeaks_nooffset(self, signals, column, start_window, end_window) ==
    LET col == signals.data[column]
        rows == 0..(signals.n - 1)
        last_start == SetMax({k \in rows : TimeAt(signals, k) <= start_window})
        first_end == SetMin({k \in rows : TimeAt(signals, k) >= end_window})
        height == <<self.threshold[1] * signals.den[column], self.threshold[2]>>
    IN  [peaks_start |-> find_peaks(Part(col, 0, last_start), height),
         peaks_end |-> find_peaks(Part(col, first_end, signals.n - 1), height)]

\* the first half of _get_peak_sequences: the peaks of the rows up to
\* start_window and the peaks of the rows from end_window on, the positions
\* of the latter offset by where the end window begins
WindowPeaks(self, signals, column, start_window, end_window) ==
    LET col == signals.data[column]
        rows == 0..(signals.n - 1)
        last_start == SetMax({k \in rows : TimeAt(signals, k) <= start_window})
        first_end == SetMin({k \in rows : TimeAt(signals, k) >= end_window})
        height == <<self.threshold[1] * signals.den[column], self.threshold[2]>>
        found_end == find_peaks(Part(col, first_end, signals.n - 1), height)
    IN  [peaks_start |-> find_peaks(Part(col, 0, last_start), height),
         peaks_end |-> [i \in 1..Len(found_end) |-> found_end[i] + first_end]]

\* the peaks of both windows merged into sequences, and the sequences of
\* fewer than min_length peaks left out
_get_peak_sequences(self, signals, column, start_window, end_window) ==
    LET found == WindowPeaks(self, signals, column, start_window, end_window)
        sequences == _merge_peak_sequences(found.peaks_start \o found.peaks_end,
                                           signals, self.distance)
    IN  SelectSeqs(sequences, {i \in 1..Len(sequences) :
                                  Len(sequences[i]) >= self.min_length})

\* np.median(x) + np.mean(x) of the peak values of a sequence, times 2 * len
_get_shake_weight(col, seq) ==
    LET n == Len(seq)
        x == [i \in 1..n |-> col[seq[i]]]
    IN  Median2(x) * n + 2 * SumSeq(x)

BestShake_last(col, shake_list) ==
    LET Heavier(a, b) ==
            _get_shake_weight(col, a) * Len(b) > _get_shake_weight(col, b) * Len(a)
    IN  CHOOSE i \in 1..Len(shake_list) :
            /\ \A j \in 1..Len(shake_list) :
                  ~Heavier(shake_list[j], shake_list[i])
            /\ \A j \in (i + 1)..Len(shake_list) :
                  Heavier(shake_list[i], shake_list[j])

\* max(shake_list, key=_get_shake_weight): the place in the list of the first
\* sequence of greatest weight
BestShake(col, shake_list) ==
    LET Heavier(a, b) ==    \* weight(a) > weight(b)
            _get_shake_weight(col, a) * Len(b) > _get_shake_weight(col, b) * Len(a)
    IN  CHOOSE i \in 1..Len(shake_list) :
            /\ \A j \in 1..Len(shake_list) :
                  ~Heavier(shake_list[j], shake_list[i])
            /\ \A j \in 1..(i - 1) :
                  Heavier(shake_list[i], shake_list[j])

\* the segment of the best sequence: from its first peak minus the buffer to
\* its last peak plus the buffer, each moved to the nearest row
_choose_sequence(self, signals, column, shake_list) ==
    LET best_shake == shake_list[BestShake(signals.data[column], shake_list)]
        segment_start_time == TimeAt(signals, best_shake[1]) - self.time_buffer
        segment_end_time ==
            TimeAt(signals, best_shake[Len(best_shake)]) + self.time_buffer
    IN  [start |-> TimeAt(signals, get_loc_nearest(signals, segment_start_time)),
         end |-> TimeAt(signals, get_loc_nearest(signals, segment_end_time))]

\* the sequences whose first peak lies before start_window
StartShakes(peak_sequences, signals, start_window) ==
    SelectSeqs(peak_sequences,
               {i \in 1..Len(peak_sequences) :
                   TimeAt(signals, peak_sequences[i][1]) < start_window})

\* the sequences that are not start shakes and whose last peak lies after
\* end_window (the elif of the loop)
EndShakes(peak_sequences, signals, start_window, end_window) ==
    SelectSeqs(peak_sequences,
               {i \in 1..Len(peak_sequences) :
                   /\ ~(TimeAt(signals, peak_sequences[i][1]) < start_window)
                   /\ TimeAt(signals, peak_sequences[i][Len(peak_sequences[i])])
                          > end_window})

\* the body of the loop of get_segments for one column: the SynchronizationPair
\* of the column, or the exception that ends get_segments.  The message of an
\* exception is the record of the values formatted into its text.
ColumnSegments(self, signals, column) ==
    LET col == signals.data[column]
        valid == DOMAIN col
        first_timestamp == TimeAt(signals, SetMin(valid))
        last_timestamp == TimeAt(signals, SetMax(valid))
        duration == last_timestamp - first_timestamp
        start_window == first_timestamp + self.start_window_length
        end_window == last_timestamp - self.end_window_length
    IN  IF valid = {} THEN Raise("TypeError")    \* None - None
        ELSE IF \/ duration < self.start_window_length
                \/ duration < self.end_window_length
        THEN [raised |-> "BadWindowException",
              message |-> [start_window_length |-> self.start_window_length,
                           end_window_length |-> self.end_window_length,
                           column |-> column, duration |-> duration]]
        ELSE
        Let(_get_peak_sequences(self, signals, column, start_window, end_window),
            LAMBDA peak_sequences :
        Let(StartShakes(peak_sequences, signals, start_window),
            LAMBDA start_shakes :
        Let(EndShakes(peak_sequences, signals, start_window, end_window),
            LAMBDA end_shakes :
            IF Len(start_shakes) <= 0
            THEN [raised |-> "ShakeMissingException",
                  message |-> [label |-> "start"]]
            ELSE IF Len(end_shakes) <= 0
            THEN [raised |-> "ShakeMissingException",
                  message |-> [label |-> "end"]]
            ELSE Return(
                [first |-> _choose_sequence(self, signals, column, start_shakes),
                 second |-> _choose_sequence(self, signals, column, end_shakes)]))))

\* AbstractExtractor._init_segments
_init_segments(columns) ==
    [c \in SeqToSet(columns) |-> [first |-> <<>>, second |-> <<>>]]

\* get_segments: the columns in order, up to the first that raises.  The result
\* is [outcome, segments]: what the call returns or raises and self.segments
\* as the call leaves it.
get_segments(self, signals) ==
    Let([i \in 1..Len(signals.columns) |->
            ColumnSegments(self, signals, signals.columns[i])],
        LAMBDA done :
    LET columns == signals.columns
        failed == {i \in 1..Len(columns) : Raised(done[i])}
        stop == IF failed = {} THEN Len(columns) + 1 ELSE SetMin(failed)
    IN  Let([c \in SeqToSet(columns) |->
                IF \E i \in 1..(stop - 1) : columns[i] = c
                THEN done[CHOOSE i \in 1..(stop - 1) : columns[i] = c].returned
                ELSE _init_segments(columns)[c]],
            LAMBDA segments :
                [outcome |-> IF failed = {} THEN Return(segments) ELSE done[stop],
                 segments |-> segments]))

----------------------------------------------------------------------------
(* Synchronizer: the cross-correlation of two segments                      *)

\* frame.index.get_loc(t) of a timestamp of the grid
PosOf(frame, t) == (t - frame.start) \div frame.period

\* (start, end, dataframe[col][start:end]): the rows from start to end, both
\* included
_get_segment_data(dataframe, segments, col, segment) ==
    LET start == segments[col][segment].start
        end == segments[col][segment].end
    IN  [start |-> start, end |-> end,
         data |-> Part(dataframe.data[col], PosOf(dataframe, start),
                       PosOf(dataframe, end))]

\* scipy.signal.correlate(in1, in2), mode "full", computed directly:
\* z[k] = sum over l of in1[l] * in2[l - k + len(in2) - 1]; a sum over a
\* missing value is NaN
correlate(in1, in2) ==
    [k \in 0..(in1.len + in2.len - 2) |->
        LET ls == {l \in 0..(in1.len - 1) :
                      /\ l - k + in2.len - 1 >= 0
                      /\ l - k + in2.len - 1 <= in2.len - 1}
            j(l) == l - k + in2.len - 1
        IN  [nan |-> \E l \in ls : l \notin DOMAIN in1.at \/ j(l) \notin DOMAIN in2.at,
             v |-> SumSeq([i \in 1..in1.len |->
                             IF /\ (i - 1) \in ls
                                /\ (i - 1) \in DOMAIN in1.at
                                /\ j(i - 1) \in DOMAIN in2.at
                             THEN in1.at[i - 1] * in2.at[j(i - 1)]
                             ELSE 0])]]

\* np.argmax: the first NaN if there is one, else the first greatest value
argmax(z) ==
    LET K == DOMAIN z
        nans == {k \in K : z[k].nan}
    IN  IF nans # {} THEN SetMin(nans)
        ELSE SetMin({k \in K : \A m \in K : z[m].v <= z[k].v})

\* dataframe.index[p] with a Python integer: a negative p counts from the end
IndexAt(frame, p) ==
    IF p >= frame.n \/ p < -frame.n THEN Raise("IndexError")
    ELSE IF p < 0 THEN Return(TimeAt(frame, frame.n + p))
    ELSE Return(TimeAt(frame, p))

ShiftInSamples_noplus(cross_corr, sig_data) ==
    argmax(cross_corr) - sig_data.len

\* shift_in_samples = np.argmax(cross_corr) - len(sig_data) + 1
ShiftInSamples(cross_corr, sig_data) ==
    argmax(cross_corr) - sig_data.len + 1

\* the timeshift of one segment: the row of the reference segment's start,
\* moved by the lag of the greatest correlation, minus the target's own start
SegmentTimeshift(dataframe, ref_col, sig_col, segments, segment) ==
    LET ref == _get_segment_data(dataframe, segments, ref_col, segment)
        sig == _get_segment_data(dataframe, segments, sig_col, segment)
        cross_corr == correlate(ref.data, sig.data)
        shift_in_samples == ShiftInSamples(cross_corr, sig.data)
    IN  Let(IndexAt(dataframe,
                    get_loc_nearest(dataframe, ref.start) + shift_in_samples),
            LAMBDA max_corr_ts :
                IF Raised(max_corr_ts) THEN max_corr_ts
                ELSE Return(max_corr_ts.returned - sig.start))

_get_timeshift_pair(dataframe, ref_col, sig_col, segments) ==
    Let(verify_segments(<<ref_col, sig_col>>, segments, SegmentNames),
        LAMBDA verified :
    IF Raised(verified) THEN verified
    ELSE
    Let(SegmentTimeshift(dataframe, ref_col, sig_col, segments, "first"),
        LAMBDA first :
    IF Raised(first) THEN first
    ELSE
    Let(SegmentTimeshift(dataframe, ref_col, sig_col, segments, "second"),
        LAMBDA second :
    IF Raised(second) THEN second
    ELSE Return([first |-> first.returned, second |-> second.returned]))))

\* a copy of a Series with every timestamp t moved to
\* start_time + (t - start_time) * factor, the product cut to a whole tick;
\* set_index(verify_integrity=True) raises ValueError on a repeated timestamp
_stretch_signals(source, factor, start_time) ==
    LET moved(t) == start_time + TruncDiv((t - start_time) * factor[1], factor[2])
        new_index == {moved(t) : t \in DOMAIN source}
    IN  IF Cardinality(new_index) # Cardinality(DOMAIN source)
        THEN Raise("ValueError")
        ELSE Return([u \in new_index |->
                        source[CHOOSE t \in DOMAIN source : moved(t) = u]])

----------------------------------------------------------------------------
(* Synchronizer: the two passes.  self.sources is a sequence of             *)
(* [name, data, params]: data is the Series of the reference column of the  *)
(* source's table and params maps the keys "timeshift" and "stretch_factor" *)
(* that have been stored to their values: <<>> is None, <<d>> a Timedelta   *)
(* and <<n, d>> the number n / d.                                           *)

None == <<>>
One == <<1, 1>>

Timestamp(t) == <<t>>

stretch_signals_inplace(source, factor, start_time) ==
    LET start == IF start_time = None THEN SetMin(DOMAIN source)
                 ELSE start_time[1]
        df == _stretch_signals(source, factor, start)
    IN  [outcome |-> df,
         source |-> IF Returned(df) THEN df.returned ELSE source]

\* helpers.stretch_signals: the same body as Synchronizer._stretch_signals,
\* here with the default of start_time, None, which stands for the earliest
\* timestamp.  The result is [outcome, source]: the stretched copy or the
\* exception, and the table handed in as the call leaves it.
stretch_signals(source, factor, start_time) ==
    LET start == IF start_time = None THEN SetMin(DOMAIN source)
                 ELSE start_time[1]
        df == _stretch_signals(source, factor, start)
    IN  [outcome |-> df, source |-> source]

Timedelta(d) == <<d>>

\* self.sources[name][key] = value
SetParam(srcs, name, key, value) ==
    [i \in 1..Len(srcs) |->
        IF srcs[i].name # name THEN srcs[i]
        ELSE [srcs[i] EXCEPT !.params =
                [k \in (DOMAIN srcs[i].params) \cup {key} |->
                    IF k = key THEN value ELSE srcs[i].params[k]]]]

OtherColumns_all(columns, ref_name) == columns

\* the columns of a frame other than the reference, in order
OtherColumns(columns, ref_name) ==
    SelectSeqs(columns, {i \in 1..Len(columns) : columns[i] # ref_name})

StretchColumn_uncaught(df_equidistant, ref_copy, start_time, ref_name, source, sync_pairs) ==
    Let(_get_timeshift_pair(df_equidistant, ref_name, source, sync_pairs),
        LAMBDA timeshifts :
    IF Raised(timeshifts) THEN timeshifts
    ELSE
    Let(get_stretch_factor(sync_pairs[source], timeshifts.returned),
        LAMBDA stretch_factor :
    IF Raised(stretch_factor) THEN stretch_factor
    ELSE
    Let(_stretch_signals(ref_copy.data[source], stretch_factor.returned,
                         start_time),
        LAMBDA signal_stretched :
    IF Raised(signal_stretched) THEN signal_stretched
    ELSE Return([stretch_factor |-> stretch_factor.returned,
                 signal_stretched |-> signal_stretched.returned]))))

\* the body of the loop of _calculate_stretch_factors for one source: its
\* stretch factor and its stretched column, or the exception that ends the pass
StretchColumn(df_equidistant, ref_copy, start_time, ref_name, source, sync_pairs) ==
    Let(_get_timeshift_pair(df_equidistant, ref_name, source, sync_pairs),
        LAMBDA timeshifts :
    IF Raised(timeshifts) THEN timeshifts
    ELSE
    Let(get_stretch_factor(sync_pairs[source], timeshifts.returned),
        LAMBDA stretch_factor :
    IF Raised(stretch_factor) THEN Raise("StartEqualsEndError")
    ELSE
    Let(_stretch_signals(ref_copy.data[source], stretch_factor.returned,
                         start_time),
        LAMBDA signal_stretched :
    IF Raised(signal_stretched) THEN signal_stretched
    ELSE Return([stretch_factor |-> stretch_factor.returned,
                 signal_stretched |-> signal_stretched.returned]))))

\* what a pass leaves when it ends at a call that raised
Failed(self, outcome, self_extractor, calls) ==
    [outcome |-> outcome, sources |-> self.sources, extractor |-> self_extractor,
     writes |-> <<>>, get_segments_calls |-> calls,
     timedeltas |-> <<>>, warnings |-> <<>>]

\* self.sources after the loop has stored key for others[1..k]
RECURSIVE Stored(_, _, _, _, _)
Stored(srcs, others, key, value, k) ==
    IF k = 0 THEN srcs
    ELSE SetParam(Stored(srcs, others, key, value, k - 1), others[k], key,
                  value[k])

\* self is [sources, ref_signals, sampling_freq, extractor, ref_source_name].
\* The result is [outcome, sources, extractor, writes, get_segments_calls,
\* timedeltas, warnings]: the
\* stretched copy of self.ref_signals or the exception, self.sources and
\* self.extractor as the pass leaves them, the keys it stored in order and the
\* number of calls of get_segments it made.
StretchPass(self, ref_copy) ==
    LET start_time == SetMin(ref_copy.index)
    IN
    Let(get_equidistant_signals(ref_copy, self.sampling_freq),
        LAMBDA df_equidistant :
    IF Raised(df_equidistant)
    THEN Failed(self, df_equidistant, self.extractor, 0)
    ELSE
    Let(get_segments(self.extractor, df_equidistant.returned), LAMBDA found :
    Let([self.extractor EXCEPT !.segments = found.segments],
        LAMBDA extractor_after :
    IF Raised(found.outcome)
    THEN Failed(self, found.outcome, extractor_after, 1)
    ELSE
    Let(OtherColumns(df_equidistant.returned.columns, self.ref_source_name),
        LAMBDA others :
    Let([i \in 1..Len(others) |->
            StretchColumn(df_equidistant.returned, ref_copy, start_time,
                          self.ref_source_name, others[i],
                          found.outcome.returned)],
        LAMBDA done :
    LET failed == {i \in 1..Len(others) : Raised(done[i])}
        stop == IF failed = {} THEN Len(others) + 1 ELSE SetMin(failed)
        stretched == {others[i] : i \in 1..(stop - 1)}
        result == [c \in stretched |->
                    done[CHOOSE i \in 1..(stop - 1) : others[i] = c].returned]
        kept == {i \in 1..Len(ref_copy.columns) :
                    ref_copy.columns[i] \notin stretched}
    IN  [outcome |->
            IF failed # {} THEN done[stop]
            ELSE Return(
                [index |-> ref_copy.index \cup
                            UNION {DOMAIN result[c].signal_stretched : c \in stretched},
                 \* drop(source).join(stretched) moves the column to the end
                 columns |-> SelectSeqs(ref_copy.columns, kept) \o others,
                 data |-> [c \in SeqToSet(ref_copy.columns) |->
                             IF c \in stretched THEN result[c].signal_stretched
                             ELSE ref_copy.data[c]],
                 den |-> ref_copy.den]),
         sources |-> Stored(self.sources, others, "stretch_factor",
                            [i \in 1..(stop - 1) |-> done[i].returned.stretch_factor],
                            stop - 1),
         extractor |-> extractor_after,
         writes |-> [i \in 1..(stop - 1) |-> <<others[i], "stretch_factor">>],
         get_segments_calls |-> 1,
         timedeltas |-> <<>>, warnings |-> <<>>])))))

\* self.ref_signals with the column of every source that has a stretch factor
\* stored already stretched by it: what the frame would be had an earlier
\* first pass worked on self.ref_signals itself
StretchedBefore(self) ==
    LET frame == self.ref_signals
        had == {c \in SeqToSet(frame.columns) :
                   /\ c # self.ref_source_name
                   /\ "stretch_factor" \in
                          DOMAIN self.sources[SourceAt(self.sources, c)].params
                   /\ frame.data[c] # <<>>}
        again == [c \in had |->
                    _stretch_signals(
                        frame.data[c],
                        self.sources[SourceAt(self.sources, c)].params["stretch_factor"],
                        SetMin(frame.index))]
        moved == {c \in had : Returned(again[c])}
    IN  [frame EXCEPT
            !.index = @ \cup UNION {DOMAIN again[c].returned : c \in moved},
            !.data = [c \in DOMAIN @ |->
                        IF c \in moved THEN again[c].returned ELSE @[c]]]

_calculate_stretch_factors_inplace(self) == StretchPass(self, StretchedBefore(self))

\* the first pass works on a copy of self.ref_signals
_calculate_stretch_factors(self) == StretchPass(self, self.ref_signals)

_calculate_timeshifts_second(self, stretched_ref_signals) ==
    Let(get_equidistant_signals(stretched_ref_signals, self.sampling_freq),
        LAMBDA df_equi :
    IF Raised(df_equi) THEN Failed(self, df_equi, self.extractor, 0)
    ELSE
    Let(get_segments(self.extractor, df_equi.returned), LAMBDA found :
    Let([self.extractor EXCEPT !.segments = found.segments],
        LAMBDA extractor_after :
    IF Raised(found.outcome)
    THEN Failed(self, found.outcome, extractor_after, 1)
    ELSE
    Let(OtherColumns(df_equi.returned.columns, self.ref_source_name),
        LAMBDA others :
    Let([i \in 1..Len(others) |->
            _get_timeshift_pair(df_equi.returned, self.ref_source_name,
                                others[i], found.outcome.returned)],
        LAMBDA done :
    LET failed == {i \in 1..Len(others) : Raised(done[i])}
        stop == IF failed = {} THEN Len(others) + 1 ELSE SetMin(failed)
        timedelta == [i \in 1..(stop - 1) |->
                        done[i].returned.first - done[i].returned.second]
    IN  [outcome |-> IF failed # {} THEN done[stop] ELSE Return("None"),
         sources |-> Stored(self.sources, others, "timeshift",
                            [i \in 1..(stop - 1) |->
                                Timedelta(done[i].returned.second)],
                            stop - 1),
         extractor |-> extractor_after,
         writes |-> [i \in 1..(stop - 1) |-> <<others[i], "timeshift">>],
         get_segments_calls |-> 1,
         timedeltas |-> [i \in 1..(stop - 1) |-> <<others[i], timedelta[i]>>],
         warnings |-> SelectSeqs(others,
                                 {i \in 1..(stop - 1) : timedelta[i] > 0})])))))

\* The result is as for the first pass, with the outcome None or the
\* exception; timedeltas is timeshifts["first"] - timeshifts["second"] of every
\* source the loop got through, and warnings the sources for which
\* logger.warning was called, in order.
_calculate_timeshifts(self, stretched_ref_signals) ==
    Let(get_equidistant_signals(stretched_ref_signals, self.sampling_freq),
        LAMBDA df_equi :
    IF Raised(df_equi) THEN Failed(self, df_equi, self.extractor, 0)
    ELSE
    Let(get_segments(self.extractor, df_equi.returned), LAMBDA found :
    Let([self.extractor EXCEPT !.segments = found.segments],
        LAMBDA extractor_after :
    IF Raised(found.outcome)
    THEN Failed(self, found.outcome, extractor_after, 1)
    ELSE
    Let(OtherColumns(df_equi.returned.columns, self.ref_source_name),
        LAMBDA others :
    Let([i \in 1..Len(others) |->
            _get_timeshift_pair(df_equi.returned, self.ref_source_name,
                                others[i], found.outcome.returned)],
        LAMBDA done :
    LET failed == {i \in 1..Len(others) : Raised(done[i])}
        stop == IF failed = {} THEN Len(others) + 1 ELSE SetMin(failed)
        timedelta == [i \in 1..(stop - 1) |->
                        done[i].returned.first - done[i].returned.second]
    IN  [outcome |-> IF failed # {} THEN done[stop] ELSE Return("None"),
         sources |-> Stored(self.sources, others, "timeshift",
                            [i \in 1..(stop - 1) |->
                                Timedelta(done[i].returned.first)],
                            stop - 1),
         extractor |-> extractor_after,
         writes |-> [i \in 1..(stop - 1) |-> <<others[i], "timeshift">>],
         get_segments_calls |-> 1,
         timedeltas |-> [i \in 1..(stop - 1) |-> <<others[i], timedelta[i]>>],
         warnings |-> SelectSeqs(others,
                                 {i \in 1..(stop - 1) : timedelta[i] > 0})])))))

\* the reference's own parameters first, then the first pass and, when it
\* returns, the second on its result
_calculate_sync_params(self) ==
    LET name == self.ref_source_name
        writes0 == <<<<name, "timeshift">>, <<name, "stretch_factor">>>>
    IN
    Let([self EXCEPT !.sources =
            SetParam(SetParam(self.sources, name, "timeshift", None),
                     name, "stretch_factor", One)],
        LAMBDA self0 :
    Let(_calculate_stretch_factors(self0), LAMBDA pass1 :
    IF Raised(pass1.outcome)
    THEN [pass1 EXCEPT !.writes = writes0 \o pass1.writes]
    ELSE
    Let(_calculate_timeshifts([self0 EXCEPT !.sources = pass1.sources,
                                            !.extractor = pass1.extractor],
                              pass1.outcome.returned),
        LAMBDA pass2 :
    [pass2 EXCEPT !.writes = writes0 \o pass1.writes \o pass2.writes,
                  !.get_segments_calls = pass1.get_segments_calls
                                           + pass2.get_segments_calls])))

----------------------------------------------------------------------------
(* Synchronizer: the public operations                                      *)

\* the stored keys of every source, as the dictionary get_sync_params builds
SyncParams(srcs) ==
    [name \in SeqToSet(SourceNames(srcs)) |-> srcs[SourceAt(srcs, name)].params]

get_sync_params_always(self, recalculate) ==
    Let(_calculate_sync_params(self), LAMBDA calc :
        IF Raised(calc.outcome) THEN calc
        ELSE [calc EXCEPT !.outcome = Return(SyncParams(calc.sources))])

\* The result is [outcome, sources, extractor, writes, get_segments_calls,
\* timedeltas, warnings].
get_sync_params(self, recalculate) ==
    LET ref == self.sources[SourceAt(self.sources, self.ref_source_name)]
    IN  IF recalculate \/ "timeshift" \notin DOMAIN ref.params
        THEN Let(_calculate_sync_params(self), LAMBDA calc :
                 IF Raised(calc.outcome) THEN calc
                 ELSE [calc EXCEPT !.outcome = Return(SyncParams(calc.sources))])
        ELSE [outcome |-> Return(SyncParams(self.sources)),
              sources |-> self.sources, extractor |-> self.extractor,
              writes |-> <<>>, get_segments_calls |-> 0,
              timedeltas |-> <<>>, warnings |-> <<>>]

\* data.shift(1, freq=timeshift)
Shift(data, timeshift) ==
    [u \in {t + timeshift[1] : t \in DOMAIN data} |-> data[u - timeshift[1]]]

SyncedSource_ownstart(source, start_time) ==
    IF "stretch_factor" \notin DOMAIN source.params THEN Raise("KeyError")
    ELSE IF "timeshift" \notin DOMAIN source.params THEN Raise("KeyError")
    ELSE
    Let(IF source.params["stretch_factor"] # One
        THEN _stretch_signals(source.data, source.params["stretch_factor"],
                              SetMin(DOMAIN source.data))
        ELSE Return(source.data),
        LAMBDA stretched :
    IF Raised(stretched) THEN stretched
    ELSE IF source.params["timeshift"] # None
    THEN Return(Shift(stretched.returned, source.params["timeshift"]))
    ELSE stretched)

\* the body of the loop of get_synced_data for one source: a source without
\* a stored key raises KeyError
SyncedSource(source, start_time) ==
    IF "stretch_factor" \notin DOMAIN source.params THEN Raise("KeyError")
    ELSE IF "timeshift" \notin DOMAIN source.params THEN Raise("KeyError")
    ELSE
    Let(IF source.params["stretch_factor"] # One
        THEN _stretch_signals(source.data, source.params["stretch_factor"],
                              start_time)
        ELSE Return(source.data),
        LAMBDA stretched :
    IF Raised(stretched) THEN stretched
    ELSE IF source.params["timeshift"] # None
    THEN Return(Shift(stretched.returned, source.params["timeshift"]))
    ELSE stretched)

get_synced_data(self, recalculate) ==
    Let(get_sync_params(self, recalculate), LAMBDA params :
    IF Raised(params.outcome) THEN params
    ELSE
    Let([i \in 1..Len(params.sources) |->
            SyncedSource(params.sources[i], SetMin(self.ref_signals.index))],
        LAMBDA done :
    LET failed == {i \in 1..Len(params.sources) : Raised(done[i])}
    IN  IF failed # {} THEN [params EXCEPT !.outcome = done[SetMin(failed)]]
        ELSE [params EXCEPT !.outcome =
                Return([name \in SeqToSet(SourceNames(params.sources)) |->
                          done[SourceAt(params.sources, name)].returned])]))

SetThresholdTo_closed(self_extractor, value) ==
    IF 0 < value[1] /\ value[1] <= value[2]
    THEN [outcome |-> Return("None"),
          extractor |-> [self_extractor EXCEPT !.threshold = value]]
    ELSE [outcome |-> Raise("ValueError"), extractor |-> self_extractor]

\* ShakeExtractor.threshold = value
SetThresholdTo(self_extractor, value) ==
    IF 0 < value[1] /\ value[1] < value[2]
    THEN [outcome |-> Return("None"),
          extractor |-> [self_extractor EXCEPT !.threshold = value]]
    ELSE [outcome |-> Raise("ValueError"), extractor |-> self_extractor]

\* the columns of the table of a source: the model keeps the reference column
SourceColumns == {"acc"}

\* the loop of save_data over the entries of one custom table: KeyError at the
\* first entry with a column to look up in a source that does not exist, and
\* a warning for every column looked up before that the source does not
\* have.  An entry is [source, columns].
SaveTable(srcs, table) ==
    LET names == SeqToSet(SourceNames(srcs))
        entries == table.spec
        failed == {j \in 1..Len(entries) :
                      /\ entries[j].source \notin names
                      /\ entries[j].columns # <<>>}
        stop == IF failed = {} THEN Len(entries) + 1 ELSE SetMin(failed)
    IN  [outcome |-> IF failed = {} THEN Return("None") ELSE Raise("KeyError"),
         warnings |-> UNION {{[source |-> entries[j].source, column |-> c] :
                                c \in SeqToSet(entries[j].columns) \ SourceColumns} :
                             j \in 1..(stop - 1)}]

\* save_data(target_dir, tables, save_total_table).  tables is the sequence of
\* the custom tables [name, spec] in the order of the dictionary.  The result
\* is [outcome, sources, extractor, files, warnings]: files are the names of
\* the files written, in order, without their extension.
save_data(self, tables, save_total_table) ==
    LET table_names == {tables[i].name : i \in 1..Len(tables)}
        unsaved(outcome) ==
            [outcome |-> outcome, sources |-> self.sources,
             extractor |-> self.extractor, files |-> <<>>, warnings |-> {}]
    IN
    IF "SYNC" \in table_names THEN unsaved(Raise("ValueError"))
    ELSE IF save_total_table /\ "TOTAL" \in table_names
    THEN unsaved(Raise("ValueError"))
    ELSE
    Let(get_sync_params(self, FALSE), LAMBDA sync_params :
    IF Raised(sync_params.outcome)
    THEN [outcome |-> sync_params.outcome, sources |-> sync_params.sources,
          extractor |-> sync_params.extractor, files |-> <<>>, warnings |-> {}]
    ELSE
    Let(get_synced_data([self EXCEPT !.sources = sync_params.sources,
                                     !.extractor = sync_params.extractor],
                        FALSE),
        LAMBDA synced_data :
    IF Raised(synced_data.outcome)
    THEN [outcome |-> synced_data.outcome, sources |-> synced_data.sources,
          extractor |-> synced_data.extractor, files |-> <<>>, warnings |-> {}]
    ELSE
    Let([i \in 1..Len(tables) |-> SaveTable(synced_data.sources, tables[i])],
        LAMBDA saved :
    LET failed == {i \in 1..Len(tables) : Raised(saved[i].outcome)}
        stop == IF failed = {} THEN Len(tables) + 1 ELSE SetMin(failed)
        written == [i \in 1..(stop - 1) |-> tables[i].name]
    IN  [outcome |-> IF failed # {} THEN saved[stop].outcome ELSE Return("None"),
         sources |-> synced_data.sources,
         extractor |-> synced_data.extractor,
         files |-> <<"SYNC">> \o written
                    \o (IF failed = {} /\ save_total_table
                        THEN <<"TOTAL">> ELSE <<>>),
         warnings |-> UNION {saved[i].warnings :
                               i \in 1..(IF failed = {} THEN Len(tables)
                                         ELSE stop)}])))

\* a value handed to a window setter: a pd.Timedelta of so many ticks, or a
\* plain number
TimedeltaValue(d) == [type |-> "Timedelta", ticks |-> d]
NumberValue(n) == [type |-> "int", ticks |-> n]

\* ShakeExtractor.start_window_length = value
SetStartWindowLengthTo(self_extractor, value) ==
    IF value.type = "Timedelta"
    THEN [outcome |-> Return("None"),
          extractor |-> [self_extractor EXCEPT !.start_window_length = value.ticks]]
    ELSE [outcome |-> Raise("ValueError"), extractor |-> self_extractor]

\* ShakeExtractor.end_window_length = value
SetEndWindowLengthTo(self_extractor, value) ==
    IF value.type = "Timedelta"
    THEN [outcome |-> Return("None"),
          extractor |-> [self_extractor EXCEPT !.end_window_length = value.ticks]]
    ELSE [outcome |-> Raise("ValueError"), extractor |-> self_extractor]

----------------------------------------------------------------------------
(* The session.  A Synchronizer is constructed over two or three recordings *)
(* and a ShakeExtractor; the caller then reads the parameters, reads the    *)
(* synchronized data and changes the extractor's threshold, in any order.   *)

MaxSpacing == 2     \* recordings are sampled every 1..MaxSpacing ticks
MaxOffset == 1      \* the target starts up to MaxOffset ticks before or after
RefStart == 10      \* the first timestamp of the reference recording

\* a start shake and an end shake; the second shape has them further apart
Shapes == {<<0, 3, 0, 0, 0, 2, 0>>, <<0, 3, 0, 0, 0, 0, 2, 0>>}
RefShape == <<0, 3, 0, 0, 0, 2, 0>>

\* the reference column of a recording: Len(shape) samples from start on
Recording(start, spacing, shape) ==
    [t \in {start + spacing * (i - 1) : i \in 1..Len(shape)} |->
        shape[((t - start) \div spacing) + 1]]

Source(name, data) == [name |-> name, data |-> data, params |-> <<>>]

\* the source dictionaries: the reference A and then a target B of the
\* same sampling rate, or B, A and a third recording C
SourceDicts ==
    LET A(sp) == Source("A", Recording(RefStart, sp, RefShape))
        B(sp, d, shape) == Source("B", Recording(RefStart - d, sp, shape))
        C == Source("C", Recording(RefStart + 1, 1, RefShape))
        pairs == {<<A(sp), B(sp, d, shape)>> :
                     sp \in 1..MaxSpacing, d \in (-MaxOffset)..MaxOffset,
                     shape \in Shapes}
    IN  pairs \cup {<<p[2], p[1], C>> : p \in pairs}

WindowLength == 4
Distance == 2
TimeBuffers == {1, 7}
Thresholds == {<<1, 2>>, <<9, 10>>, <<1, 1>>}

\* ShakeExtractor() with its attributes set in ticks
Extractors ==
    {[start_window_length |-> WindowLength, end_window_length |-> WindowLength,
      threshold |-> <<1, 2>>, distance |-> Distance, min_length |-> 1,
      time_buffer |-> b, segments |-> <<>>] : b \in TimeBuffers}

Self ==
    [sources |-> sources, ref_signals |-> ref_signals,
     sampling_freq |-> sampling_freq, extractor |-> extractor,
     ref_source_name |-> ref_source_name]

\* the parameters of the source called name, as stored
ParamsOf(name) == sources[SourceAt(sources, name)].params

\* the reference column of the source called name
DataOf(name) == sources[SourceAt(sources, name)].data

\* the test of get_sync_params for parameters calculated before
Cached == "timeshift" \in DOMAIN ParamsOf(ref_source_name)

\* Synchronizer(sources, "A", extractor)
Init ==
    /\ input = <<>>
    /\ output = NotCalled
    /\ sources \in SourceDicts
    /\ ref_source_name = "A"
    /\ extractor \in Extractors
    /\ ref_signals = _prepare_ref_signals(sources)
    /\ sampling_freq = get_max_ref_frequency(ref_signals)
    /\ last = NotCalled
    /\ returned = NotCalled

GetSyncParams ==
    \E recalculate \in BOOLEAN :
        \E call \in {get_sync_params(Self, recalculate)} :
            /\ sources' = call.sources
            /\ extractor' = call.extractor
            /\ last' = [op |-> "get_sync_params", arg |-> recalculate,
                        cached |-> Cached,
                        outcome |-> call.outcome, writes |-> call.writes,
                        get_segments_calls |-> call.get_segments_calls,
                        timedeltas |-> call.timedeltas,
                        warnings |-> call.warnings]
            /\ returned' = IF Returned(call.outcome) THEN call.outcome
                           ELSE NotCalled
            /\ UNCHANGED <<helperVars, ref_signals, sampling_freq,
                           ref_source_name>>

GetSyncedData ==
    \E recalculate \in BOOLEAN :
        \E call \in {get_synced_data(Self, recalculate)} :
            /\ sources' = call.sources
            /\ extractor' = call.extractor
            /\ last' = [op |-> "get_synced_data", arg |-> recalculate,
                        cached |-> Cached,
                        outcome |-> call.outcome, writes |-> call.writes,
                        get_segments_calls |-> call.get_segments_calls,
                        timedeltas |-> call.timedeltas,
                        warnings |-> call.warnings]
            /\ returned' = IF call.writes = <<>> THEN returned ELSE NotCalled
            /\ UNCHANGED <<helperVars, ref_signals, sampling_freq,
                           ref_source_name>>

SetThreshold ==
    \E value \in Thresholds :
        \E call \in {SetThresholdTo(extractor, value)} :
            /\ extractor' = call.extractor
            /\ last' = [op |-> "threshold", arg |-> value,
                        cached |-> Cached,
                        outcome |-> call.outcome, writes |-> <<>>,
                        get_segments_calls |-> 0,
                        timedeltas |-> <<>>, warnings |-> <<>>]
            /\ UNCHANGED <<helperVars, sources, ref_signals, sampling_freq,
                           ref_source_name, returned>>

Next == GetSyncParams \/ GetSyncedData \/ SetThreshold

Spec == Init /\ [][Next]_vars

----------------------------------------------------------------------------
(* A session on recordings of different sampling rates: the stretched       *)
(* target does not line up with the reference exactly, so the second pass   *)
(* finds two different timeshifts.                                          *)

MixedShapes ==
    {<<0, 3, 0, 0, 2, 0>>, <<0, 3, 0, 0, 0, 2, 0>>,
     <<0, 3, 0, 0, 0, 0, 0, 2, 0>>}

\* the reference A at the lowest rate and a target B at any rate
MixedDicts ==
    {<<Source("A", Recording(RefStart, MaxSpacing, RefShape)),
       Source("B", Recording(RefStart - d, sp, shape))>> :
        sp \in 1..MaxSpacing, d \in (-MaxOffset)..MaxOffset,
        shape \in MixedShapes}

MixedExtractors ==
    {[start_window_length |-> WindowLength, end_window_length |-> WindowLength,
      threshold |-> <<1, 2>>, distance |-> Distance, min_length |-> 1,
      time_buffer |-> b, segments |-> <<>>] : b \in {2, 3}}

\* Synchronizer(sources, "A", extractor)
InitMixed ==
    /\ input = <<>>
    /\ output = NotCalled
    /\ sources \in MixedDicts
    /\ ref_source_name = "A"
    /\ extractor \in MixedExtractors
    /\ ref_signals = _prepare_ref_signals(sources)
    /\ sampling_freq = get_max_ref_frequency(ref_signals)
    /\ last = NotCalled
    /\ returned = NotCalled

SpecMixed == InitMixed /\ [][Next]_vars

----------------------------------------------------------------------------
(* Specification of get_segments: the extractor and the equidistant frame   *)
(* are drawn at Init, the one action calls get_segments.                    *)

\* window lengths shorter than, within and longer than the recordings
SegmentWindows == {1, 4, 7}

\* the frames the first pass hands to get_segments
SegmentFrames ==
    LET frame(srcs) ==
            get_equidistant_signals(
                _prepare_ref_signals(srcs),
                get_max_ref_frequency(_prepare_ref_signals(srcs)))
        frames == {frame(srcs) : srcs \in SourceDicts}
    IN  {f.returned : f \in {g \in frames : Returned(g)}}

SegmentsInputs ==
    {[self |-> [e EXCEPT !.start_window_length = sw,
                         !.end_window_length = ew,
                         !.threshold = th],
      signals |-> f] :
        e \in Extractors,
        sw \in SegmentWindows, ew \in SegmentWindows,
        th \in {<<1, 2>>, <<9, 10>>}, f \in SegmentFrames}

InitSegments ==
    /\ input \in SegmentsInputs
    /\ output = NotCalled
    /\ IdleSession

CallGetSegments ==
    /\ output = NotCalled
    /\ output' = get_segments(input.self, input.signals)
    /\ UNCHANGED <<input, sessionVars>>

SpecSegments == InitSegments /\ [][CallGetSegments]_vars

----------------------------------------------------------------------------
(* Specification of the detection in one column: the values the loop of     *)
(* get_segments computes for a column that passes the test of the window    *)
(* lengths.                                                                 *)

\* recordings with several shakes: pairs of peaks, single peaks of different
\* and of equal height
ShakeShapes ==
    {<<0, 3, 0, 3, 0, 0, 0, 2, 0, 2, 0>>,
     <<0, 2, 0, 0, 3, 0, 0, 3, 0, 0, 2, 0>>,
     <<0, 3, 0, 0, 3, 0, 0, 2, 0, 0, 2, 0>>,
     <<0, 0, 3, 0, 0, 3, 0, 0, 2, 0, 0>>,
     <<0, 0, 0, 0, 0, 3, 0, 0, 3, 0, 0, 0, 2, 0, 2, 0, 0>>,
     <<0, 2, 0, 0, 3, 0, 0, 3, 0, 0, 0, 0, 0, 0, 0, 0, 0, 2, 0, 0>>,
     <<0, 3, 0, 0, 0, 2, 0>>}

\* frames of two columns, B starting with or after A
ShakeFrames ==
    LET frame(a, b, d) ==
            get_equidistant_signals(
                _prepare_ref_signals(
                    <<Source("A", Recording(RefStart, 1, a)),
                      Source("B", Recording(RefStart + d, 1, b))>>), 1)
    IN  {frame(a, b, d).returned :
            a \in ShakeShapes, b \in ShakeShapes, d \in 0..MaxOffset}

ShakeExtractors ==
    {[start_window_length |-> w, end_window_length |-> w,
      threshold |-> th, distance |-> d, min_length |-> m,
      time_buffer |-> b, segments |-> <<>>] :
        th \in {<<1, 2>>, <<9, 10>>},
        w \in {WindowLength, WindowLength + 3, WindowLength + 5,
               WindowLength + 8},
        d \in {Distance, Distance + 1, 12}, m \in 1..2, b \in TimeBuffers}

\* the test of the window lengths at the head of the loop
PassesWindowTest(self, signals, column) ==
    LET valid == DOMAIN signals.data[column]
        duration == TimeAt(signals, SetMax(valid)) - TimeAt(signals, SetMin(valid))
    IN  /\ valid # {}
        /\ ~(\/ duration < self.start_window_length
             \/ duration < self.end_window_length)

ShakesInputs ==
    {x \in [self : ShakeExtractors, signals : ShakeFrames, column : {"A", "B"}] :
        PassesWindowTest(x.self, x.signals, x.column)}

\* the locals of the loop of get_segments for one column, up to the segments
\* chosen (or the exception raised) for it
ColumnShakes(self, signals, column) ==
    LET valid == DOMAIN signals.data[column]
        start_window == TimeAt(signals, SetMin(valid)) + self.start_window_length
        end_window == TimeAt(signals, SetMax(valid)) - self.end_window_length
        found == WindowPeaks(self, signals, column, start_window, end_window)
        peaks == found.peaks_start \o found.peaks_end
        peak_sequences ==
            _get_peak_sequences(self, signals, column, start_window, end_window)
    IN  [start_window |-> start_window, end_window |-> end_window,
         peaks_start |-> found.peaks_start, peaks_end |-> found.peaks_end,
         peaks |-> peaks,
         sequences |-> _merge_peak_sequences(peaks, signals, self.distance),
         peak_sequences |-> peak_sequences,
         start_shakes |-> StartShakes(peak_sequences, signals, start_window),
         end_shakes |-> EndShakes(peak_sequences, signals, start_window,
                                  end_window),
         best_shakes |->
            [segment \in {"first", "second"} |->
                LET shakes == IF segment = "first"
                              THEN StartShakes(peak_sequences, signals,
                                               start_window)
                              ELSE EndShakes(peak_sequences, signals,
                                             start_window, end_window)
                IN  IF shakes = <<>> THEN <<>>
                    ELSE shakes[BestShake(signals.data[column], shakes)]],
         outcome |-> ColumnSegments(self, signals, column)]

InitShakes ==
    /\ input \in ShakesInputs
    /\ output = NotCalled
    /\ IdleSession

CallColumnShakes ==
    /\ output = NotCalled
    /\ output' = ColumnShakes(input.self, input.signals, input.column)
    /\ UNCHANGED <<input, sessionVars>>

SpecShakes == InitShakes /\ [][CallColumnShakes]_vars

----------------------------------------------------------------------------
(* Specification of _get_timeshift_pair: an equidistant frame of the        *)
(* reference A and a target B and the segments get_segments found in it are *)
(* drawn at Init, the one action calculates the pair of timeshifts.         *)

\* frames of two columns, B starting before, with or after A
TimeshiftFrames ==
    LET frame(a, b, d) ==
            get_equidistant_signals(
                _prepare_ref_signals(
                    <<Source("A", Recording(RefStart, 1, a)),
                      Source("B", Recording(RefStart + d, 1, b))>>), 1)
    IN  {frame(a, b, d).returned :
            a \in ShakeShapes, b \in ShakeShapes,
            d \in (-MaxOffset)..MaxOffset}

\* extractors that cut the segments close to, around and far around a shake
TimeshiftExtractors ==
    {[start_window_length |-> WindowLength, end_window_length |-> WindowLength,
      threshold |-> <<1, 2>>, distance |-> Distance, min_length |-> 1,
      time_buffer |-> b, segments |-> <<>>] : b \in TimeBuffers \cup {2, 3}}

\* the frames with the segments a detection returned for them
TimeshiftPairInputs ==
    LET found == {[dataframe |-> f, detected |-> get_segments(e, f).outcome] :
                     f \in TimeshiftFrames, e \in TimeshiftExtractors}
    IN  {[dataframe |-> x.dataframe, segments |-> x.detected.returned] :
            x \in {y \in found : Returned(y.detected)}}

InitTimeshiftPair ==
    /\ input \in TimeshiftPairInputs
    /\ output = NotCalled
    /\ IdleSession

CallGetTimeshiftPair ==
    /\ output = NotCalled
    /\ output' = _get_timeshift_pair(input.dataframe, "A", "B", input.segments)
    /\ UNCHANGED <<input, sessionVars>>

SpecTimeshiftPair == InitTimeshiftPair /\ [][CallGetTimeshiftPair]_vars

----------------------------------------------------------------------------
(* Specification of the extractor's configuration: a ShakeExtractor on its  *)
(* own, whose threshold and window lengths are assigned in any order.       *)

ThresholdValues ==
    {<<-1, 1>>, <<0, 1>>, <<1, 10>>, <<1, 2>>, <<9, 10>>, <<1, 1>>, <<3, 1>>}

WindowValues ==
    {TimedeltaValue(d) : d \in {-1, 0, 1, 4}} \cup {NumberValue(3)}

InitExtractor ==
    /\ input = <<>>
    /\ output = NotCalled
    /\ sources = <<>>
    /\ ref_signals = <<>>
    /\ sampling_freq = 0
    /\ extractor \in Extractors
    /\ ref_source_name = ""
    /\ last = NotCalled
    /\ returned = NotCalled

AssignThreshold ==
    \E value \in ThresholdValues :
        \E call \in {SetThresholdTo(extractor, value)} :
            /\ extractor' = call.extractor
            /\ last' = [op |-> "threshold", arg |-> value,
                        outcome |-> call.outcome]
            /\ UNCHANGED <<helperVars, sources, ref_signals, sampling_freq,
                           ref_source_name, returned>>

AssignStartWindowLength ==
    \E value \in WindowValues :
        \E call \in {SetStartWindowLengthTo(extractor, value)} :
            /\ extractor' = call.extractor
            /\ last' = [op |-> "start_window_length", arg |-> value,
                        outcome |-> call.outcome]
            /\ UNCHANGED <<helperVars, sources, ref_signals, sampling_freq,
                           ref_source_name, returned>>

AssignEndWindowLength ==
    \E value \in WindowValues :
        \E call \in {SetEndWindowLengthTo(extractor, value)} :
            /\ extractor' = call.extractor
            /\ last' = [op |-> "end_window_length", arg |-> value,
                        outcome |-> call.outcome]
            /\ UNCHANGED <<helperVars, sources, ref_signals, sampling_freq,
                           ref_source_name, returned>>

NextExtractor ==
    AssignThreshold \/ AssignStartWindowLength \/ AssignEndWindowLength

SpecExtractor == InitExtractor /\ [][NextExtractor]_vars

----------------------------------------------------------------------------
(* Specification of the constructor: the arguments are drawn at Init, the   *)
(* one action constructs the Synchronizer.  An entry of the source          *)
(* dictionary is [name, dict]: dict maps the keys it has to their values,   *)
(* "data" to a table [type |-> "DataFrame", columns] or to a value that is  *)
(* no table, "ref_column" to a column name.                                 *)

\* source["data"][source["ref_column"]] of _prepare_ref_signals: the column,
\* or the exception of the first lookup that fails
RefColumnOf(dict) ==
    IF "data" \notin DOMAIN dict THEN Raise("KeyError")
    ELSE IF "ref_column" \notin DOMAIN dict THEN Raise("KeyError")
    ELSE IF dict["data"].type # "DataFrame" THEN Raise("TypeError")
    ELSE IF dict["ref_column"] \notin DOMAIN dict["data"].columns
    THEN Raise("KeyError")
    ELSE Return(dict["data"].columns[dict["ref_column"]])

\* Synchronizer(sources, reference_source_name, extractor): the attributes of
\* the new object, or the exception that leaves no object
Synchronizer(srcs, reference_source_name, ext) ==
    IF ext.type # "ShakeExtractor" THEN Raise("TypeError")
    ELSE
    LET ref == [i \in 1..Len(srcs) |-> RefColumnOf(srcs[i].dict)]
        failed == {i \in 1..Len(srcs) : Raised(ref[i])}
        joined == [i \in 1..Len(srcs) |->
                      Source(srcs[i].name, ref[i].returned)]
    IN  IF failed # {} THEN ref[SetMin(failed)]
        ELSE Return([sources |-> srcs,
                     ref_source_name |-> reference_source_name,
                     extractor |-> ext.extractor,
                     ref_signals |-> _prepare_ref_signals(joined),
                     sampling_freq |->
                        get_max_ref_frequency(_prepare_ref_signals(joined))])

\* a table with the columns acc and gyro
Table == [type |-> "DataFrame",
          columns |-> [acc |-> Recording(RefStart, 1, RefShape),
                       gyro |-> Recording(RefStart, 1, RefShape)]]

\* a well-formed entry and the malformed ones: a key missing, data that is a
\* list, a reference column the table does not have
SourceEntries ==
    {[data |-> Table, ref_column |-> "acc"],
     [ref_column |-> "acc"],
     [data |-> Table],
     [data |-> [type |-> "list"], ref_column |-> "acc"],
     [data |-> Table, ref_column |-> "mag"]}

ConstructInputs ==
    {[sources |-> <<[name |-> "A", dict |-> a], [name |-> "B", dict |-> b]>>,
      reference_source_name |-> r,
      extractor |-> e] :
        a \in SourceEntries, b \in SourceEntries, r \in {"A", "B", "Z"},
        e \in {[type |-> "ShakeExtractor",
                extractor |-> CHOOSE x \in Extractors : x.time_buffer = 1],
               [type |-> "str"]}}

InitConstruct ==
    /\ input \in ConstructInputs
    /\ output = NotCalled
    /\ IdleSession

CallSynchronizer ==
    /\ output = NotCalled
    /\ output' = Synchronizer(input.sources, input.reference_source_name,
                              input.extractor)
    /\ UNCHANGED <<input, sessionVars>>

SpecConstruct == InitConstruct /\ [][CallSynchronizer]_vars

----------------------------------------------------------------------------
(* Specification of save_data: a Synchronizer is constructed, the table     *)
(* specification is drawn at Init and the one action calls save_data.       *)

\* the entries of a custom table: a column of a source, a source that does
\* not exist, a column the source does not have, a source that does not
\* exist with no column asked of it
TableSpecs ==
    {<<[source |-> "B", columns |-> <<"acc">>]>>,
     <<[source |-> "Z", columns |-> <<"acc">>]>>,
     <<[source |-> "B", columns |-> <<"mag">>]>>,
     <<[source |-> "Z", columns |-> <<>>]>>}

\* one custom table, or the table ACC of column acc and a second table after it
TableDicts ==
    LET one == {<<[name |-> n, spec |-> t]>> :
                   n \in {"GYRO", "SYNC", "TOTAL"}, t \in TableSpecs}
        acc == [name |-> "ACC",
                spec |-> <<[source |-> "A", columns |-> <<"acc">>]>>]
    IN  one \cup {<<acc>> \o t : t \in one}

\* the sessions of save_data: the target at the rate of the reference
SaveDataSources ==
    {srcs \in SourceDicts :
        /\ Len(srcs) = 2
        /\ srcs[2].data \in {Recording(RefStart - d, 1, RefShape) :
                                d \in (-MaxOffset)..MaxOffset}}

InitSaveData ==
    /\ input \in {[tables |-> t, save_total_table |-> b] :
                     t \in TableDicts, b \in BOOLEAN}
    /\ output = NotCalled
    /\ sources \in SaveDataSources
    /\ ref_source_name = "A"
    /\ extractor \in {x \in Extractors : x.time_buffer = 1}
    /\ ref_signals = _prepare_ref_signals(sources)
    /\ sampling_freq = get_max_ref_frequency(ref_signals)
    /\ last = NotCalled
    /\ returned = NotCalled

CallSaveData ==
    /\ output = NotCalled
    /\ \E call \in {save_data(Self, input.tables, input.save_total_table)} :
          /\ sources' = call.sources
          /\ extractor' = call.extractor
          /\ output' = [outcome |-> call.outcome, files |-> call.files,
                        warnings |-> call.warnings]
    /\ UNCHANGED <<input, ref_signals, sampling_freq, ref_source_name, last,
                   returned>>

SpecSaveData == InitSaveData /\ [][CallSaveData]_vars

----------------------------------------------------------------------------
(* Specification of stretch_signals: a table, a factor and a start time     *)

\* tables of up to MaxLen + 1 rows; the value of a row tells where it was
StretchTables ==
    {[t \in T |-> 10 + t] : T \in (SUBSET (0..MaxLen)) \ {{}}}

StretchFactors == {<<0, 1>>, <<1, 2>>, <<1, 1>>, <<3, 2>>, <<2, 1>>, <<-1, 1>>}

StretchSignalsInputs ==
    {[source |-> source, factor |-> factor, start_time |-> start_time] :
        source \in StretchTables, factor \in StretchFactors,
        start_time \in {None} \cup {Timestamp(t) : t \in 0..MaxStart}}

InitStretchSignals ==
    /\ input \in StretchSignalsInputs
    /\ output = NotCalled
    /\ IdleSession

CallStretchSignals ==
    /\ output = NotCalled
    /\ output' = stretch_signals(input.source, input.factor, input.start_time)
    /\ UNCHANGED <<input, sessionVars>>

SpecStretchSignals == InitStretchSignals /\ [][CallStretchSignals]_vars

----------------------------------------------------------------------------
(* Specification of get_equidistant_signals: a frame and a period           *)

\* the columns A and B, each with a sample at some of the ticks 0..MaxLen
EquidistantFrames ==
    LET tables == {[t \in T |-> 10 + t] : T \in (SUBSET (0..MaxLen)) \ {{}}}
    IN  {[index |-> (DOMAIN a) \cup (DOMAIN b),
          columns |-> <<"A", "B">>,
          data |-> [c \in {"A", "B"} |-> IF c = "A" THEN a ELSE b],
          den |-> [c \in {"A", "B"} |-> 1]] : a \in tables, b \in tables}

\* the period int(1e9 / frequency) in ticks
EquidistantInputs ==
    {[signals |-> f, period |-> p] :
        f \in EquidistantFrames, p \in 1..MaxSpacing}

InitEquidistant ==
    /\ input \in EquidistantInputs
    /\ output = NotCalled
    /\ IdleSession

CallGetEquidistantSignals ==
    /\ output = NotCalled
    /\ output' = get_equidistant_signals(input.signals, input.period)
    /\ UNCHANGED <<input, sessionVars>>

SpecEquidistant == InitEquidistant /\ [][CallGetEquidistantSignals]_vars

----------------------------------------------------------------------------
(* Claims about the helpers.                                                *)

AllEqual(x) == \A i, j \in 1..Len(x) : x[i] = x[j]

RECURSIVE SumFrac(_)
SumFrac(s) ==
    IF s = <<>> THEN <<0, 1>>
    ELSE LET h == Head(s)
             t == SumFrac(Tail(s))
         IN  <<h[1] * t[2] + t[1] * h[2], h[2] * t[2]>>

InUnitRange(q) == q[2] > 0 /\ -q[2] <= q[1] /\ q[1] <= q[2]

IsUnit(q) == q[2] > 0 /\ Abs(q[1]) = q[2]

(* C6: get_stretch_factor returns (old_length + timeshifts.second -         *)
(* timeshifts.first) / old_length, old_length = second.start - first.start, *)
(* whenever old_length # 0; the result does not change with the segment     *)
(* ends; the test's segments [1,3], [11,14] give 1/2 for timeshifts (5, 0)  *)
(* and 2 for (0, 10); equal timeshifts give exactly 1.                      *)
C6_StretchFactorFormula ==
    output # NotCalled =>
        LET seg == input.segments
            ts == input.timeshifts
            old_length == seg.second.start - seg.first.start
        IN  old_length # 0 =>
              /\ Returned(output)
              /\ FracEq(output.returned,
                        <<old_length + ts.second - ts.first, old_length>>)
              /\ \A e1 \in 0..(11 + MaxPad), e2 \in 0..(11 + MaxPad) :
                    get_stretch_factor(
                        [first |-> [start |-> seg.first.start, end |-> e1],
                         second |-> [start |-> seg.second.start, end |-> e2]],
                        ts) = output
              /\ (seg.first.start = 1 /\ seg.second.start = 11
                    /\ ts.first = 5 /\ ts.second = 0
                    => output.returned = <<1, 2>>)
              /\ (seg.first.start = 1 /\ seg.second.start = 11
                    /\ ts.first = 0 /\ ts.second = 10
                    => output.returned = <<2, 1>>)
              /\ (ts.first = ts.second => output.returned = <<1, 1>>)

C6_Witness ==
    /\ output = Return(<<1, 2>>)
    /\ input.segments = [first |-> [start |-> 1, end |-> 3],
                         second |-> [start |-> 11, end |-> 14]]
    /\ input.timeshifts = [first |-> 5, second |-> 0]

(* C8: verify_segments raises ShakeMissingException exactly when, for some  *)
(* checked column, the column, its first or second segment, or that         *)
(* segment's start or end is missing; the message names the first missing   *)
(* lookup in column, then segment, then part order; with all four           *)
(* timestamps of every checked column present it raises nothing.            *)
C8_VerifySegmentsRaises ==
    output # NotCalled =>
        LET cols == input.columns
            Triples == (1..Len(cols)) \X (1..2) \X (1..2)
            Missing(t) ==
                KeyMissing(input.segments, cols[t[1]], SegmentNames[t[2]], Parts[t[3]])
            Before(u, t) ==
                \/ u[1] < t[1]
                \/ u[1] = t[1] /\ u[2] < t[2]
                \/ u[1] = t[1] /\ u[2] = t[2] /\ u[3] < t[3]
            AnyMissing == \E t \in Triples : Missing(t)
        IN  /\ AnyMissing <=> RaisedExc(output, "ShakeMissingException")
            /\ ~AnyMissing <=> Returned(output)
            /\ AnyMissing =>
                 \E t \in Triples :
                    /\ Missing(t)
                    /\ \A u \in Triples : Missing(u) => ~Before(u, t)
                    /\ output.message = [col |-> cols[t[1]],
                                         segment |-> SegmentNames[t[2]],
                                         part |-> Parts[t[3]]]

C8_Witness ==
    /\ RaisedExc(output, "ShakeMissingException")
    /\ input.columns = <<"s", "d">>
    /\ output.message = [col |-> "d", segment |-> "second", part |-> "end"]

(* C9: for a list of at least 2 samples that are not all equal, normalize   *)
(* returns a list of the same length with mean 0, every value in [-1, 1]    *)
(* and some value of magnitude exactly 1; [1,2,3] gives [-1,0,1] and a list *)
(* that is already normalized comes back unchanged.                         *)
C9_NormalizeZeroMeanUnitRange ==
    (output # NotCalled /\ Len(input) >= 2 /\ ~AllEqual(input)) =>
        /\ Returned(output)
        /\ Len(output.returned) = Len(input)
        /\ SumFrac(output.returned)[1] = 0
        /\ \A i \in 1..Len(input) : InUnitRange(output.returned[i])
        /\ \E i \in 1..Len(input) : IsUnit(output.returned[i])
        /\ (input = <<1, 2, 3>> =>
                /\ FracEq(output.returned[1], <<-1, 1>>)
                /\ FracEq(output.returned[2], <<0, 1>>)
                /\ FracEq(output.returned[3], <<1, 1>>))
        /\ ((SumSeq(input) = 0 /\ \A i \in 1..Len(input) : Abs(input[i]) <= 1) =>
                \A i \in 1..Len(input) : FracEq(output.returned[i], <<input[i], 1>>))

C9_Witness ==
    /\ input = <<1, 2, 3>>
    /\ Returned(output)
    /\ output.returned[1][1] < 0

(* C10: normalize raises instead of returning for degenerate input:         *)
(* ValueError for fewer than 2 samples, ZeroDivisionError for a list whose  *)
(* centered values are all zero; it never returns NaN.                      *)
C10_NormalizeRaisesOnDegenerate ==
    output # NotCalled =>
        /\ (Len(input) < 2 => RaisedExc(output, "ValueError"))
        /\ (Len(input) >= 2 /\ AllEqual(input) =>
                RaisedExc(output, "ZeroDivisionError"))
        /\ (Returned(output) =>
                \A i \in 1..Len(input) : ~IsNaN(output.returned[i]))

----------------------------------------------------------------------------
(* Claims about the session.                                                *)

\* the last call was op
Called(op) == last # NotCalled /\ last.op = op

\* the last call was get_sync_params and ran the calculation
Calculated == Called("get_sync_params") /\ last.writes # <<>>

\* the last call ended with a failure of the shake detection or with
\* degenerate segments
DetectionFailed ==
    /\ Raised(last.outcome)
    /\ last.outcome.raised \in
          {"ShakeMissingException", "BadWindowException", "StartEqualsEndError"}

(* C1: once get_sync_params has returned, and as long as no calculation has *)
(* run since, every get_sync_params(recalculate=False) returns SyncParams   *)
(* equal to those returned before, calls get_segments not once and stores   *)
(* no stretch_factor and no timeshift.                                      *)
C1_CachedRead ==
    [][(/\ returned # NotCalled
        /\ last' # NotCalled
        /\ last'.op = "get_sync_params"
        /\ last'.arg = FALSE)
       => (/\ last'.outcome = returned
           /\ last'.get_segments_calls = 0
           /\ last'.writes = <<>>
           /\ sources' = sources)]_vars

\* a read served from the parameters stored before, one of them a stretch
C1_Witness ==
    /\ Called("get_sync_params")
    /\ last.arg = FALSE
    /\ last.cached
    /\ last.get_segments_calls = 0
    /\ last.outcome = returned
    /\ \E c \in DOMAIN returned.returned :
          /\ DOMAIN returned.returned[c] = {"stretch_factor", "timeshift"}
          /\ returned.returned[c]["stretch_factor"] # One

(* C2: get_sync_params(recalculate=True) right after a call that ran the    *)
(* calculation (same sources, same extractor configuration) leaves every   *)
(* source with the stretch_factor and timeshift it had, ends as that call   *)
(* ended and leaves the extractor as it was: nothing of the earlier run     *)
(* (stored parameters, stretched frame, segments) enters the new one.       *)
C2_RecalculateReproduces ==
    [][(/\ last # NotCalled
        /\ last.op \in {"get_sync_params", "get_synced_data"}
        /\ last.writes # <<>>
        /\ last'.op = "get_sync_params"
        /\ last'.arg = TRUE)
       => (/\ SyncParams(sources') = SyncParams(sources)
           /\ extractor' = extractor
           /\ last'.writes = last.writes
           /\ last.op = "get_sync_params" => last'.outcome = last.outcome)]_vars

\* a recalculation over stored parameters that returned a stretch and a shift
C2_Witness ==
    /\ Called("get_sync_params")
    /\ last.arg = TRUE
    /\ last.cached
    /\ Returned(last.outcome)
    /\ \E c \in DOMAIN last.outcome.returned :
          /\ last.outcome.returned[c]["stretch_factor"] \notin {One}
          /\ last.outcome.returned[c]["timeshift"] \notin {None, Timedelta(0)}

(* C3: whenever get_sync_params returns, the reference source has           *)
(* stretch_factor 1 and timeshift None; whenever get_synced_data returns,   *)
(* the table of the reference source is its original table.                 *)
C3_ReferenceUnchanged ==
    /\ (Called("get_sync_params") /\ Returned(last.outcome))
          => last.outcome.returned[ref_source_name]
                = [stretch_factor |-> One, timeshift |-> None]
    /\ (Called("get_synced_data") /\ Returned(last.outcome))
          => last.outcome.returned[ref_source_name] = DataOf(ref_source_name)

\* get_synced_data returned the reference as it was and moved another source
C3_Witness ==
    /\ Called("get_synced_data")
    /\ Returned(last.outcome)
    /\ last.outcome.returned[ref_source_name] = DataOf(ref_source_name)
    /\ \E c \in DOMAIN last.outcome.returned : last.outcome.returned[c] # DataOf(c)

(* C4: when the target B has the timestamps and values of the reference A   *)
(* and the shake detection does not fail, a get_sync_params that runs the   *)
(* calculation returns stretch_factor 1 and timeshift 0 for B.              *)
C4_IdenticalSignals ==
    (Calculated /\ DataOf("B") = DataOf("A") /\ ~DetectionFailed)
        => /\ Returned(last.outcome)
           /\ last.outcome.returned["B"]
                = [stretch_factor |-> One, timeshift |-> Timedelta(0)]

\* the calculation returned for a target identical to the reference
C4_Witness ==
    /\ Calculated
    /\ DataOf("B") = DataOf("A")
    /\ Returned(last.outcome)
    /\ last.outcome.returned["B"]["timeshift"] = Timedelta(0)

\* B is A with every timestamp moved by -d
PureOffset(d) ==
    DataOf("B") = [t \in {u - d : u \in DOMAIN DataOf("A")} |-> DataOf("A")[t + d]]

(* C5: when the target B is the reference A with every timestamp moved by   *)
(* -d and the shake detection does not fail, a get_sync_params that runs    *)
(* the calculation returns stretch_factor 1 for B and a timeshift at most   *)
(* one resampling period away from d.                                       *)
C5_PureOffset ==
    \A d \in (-MaxOffset)..MaxOffset :
        (Calculated /\ PureOffset(d) /\ ~DetectionFailed)
            => /\ Returned(last.outcome)
               /\ last.outcome.returned["B"]["stretch_factor"] = One
               /\ Abs(last.outcome.returned["B"]["timeshift"][1] - d)
                     <= sampling_freq

\* the segments the first pass found for column c start at the same time
Degenerate(c) ==
    /\ extractor.segments[c]["first"] # <<>>
    /\ extractor.segments[c]["second"] # <<>>
    /\ extractor.segments[c]["first"].start = extractor.segments[c]["second"].start

\* the last call ran the calculation, found segments for every column and
\* ended before the detection of the second pass
EndedAfterFirstDetection ==
    /\ last # NotCalled
    /\ last.op \in {"get_sync_params", "get_synced_data"}
    /\ last.get_segments_calls = 1
    /\ \A c \in DOMAIN extractor.segments :
          /\ extractor.segments[c]["first"] # <<>>
          /\ extractor.segments[c]["second"] # <<>>

ReachedStretchFactor(c) ==
    /\ \A b \in SeqToSet(SourceNames(sources)) \ {ref_source_name} :
          SourceAt(sources, b) < SourceAt(sources, c)
              => <<b, "stretch_factor">> \in SeqToSet(last.writes)
    /\ Let(get_equidistant_signals(ref_signals, sampling_freq),
           LAMBDA df_equidistant :
               /\ Returned(df_equidistant)
               /\ Returned(_get_timeshift_pair(df_equidistant.returned,
                                               ref_source_name, c,
                                               extractor.segments)))

----------------------------------------------------------------------------
(* Claims about get_segments.                                               *)

\* last valid timestamp minus first valid timestamp of a column
ColumnDuration(signals, c) ==
    TimeAt(signals, SetMax(DOMAIN signals.data[c]))
        - TimeAt(signals, SetMin(DOMAIN signals.data[c]))

\* the columns whose duration the two windows together exceed
OverlongFor(self, signals) ==
    {c \in SeqToSet(signals.columns) :
        self.start_window_length + self.end_window_length
            > ColumnDuration(signals, c)}

(* C11: when start_window_length + end_window_length exceeds the duration   *)
(* of a column of the frame, get_segments raises BadWindowException naming  *)
(* such a column.                                                           *)
C11_BadWindowOnSum ==
    (output # NotCalled /\ OverlongFor(input.self, input.signals) # {})
        => /\ RaisedExc(output.outcome, "BadWindowException")
           /\ output.outcome.message.column
                 \in OverlongFor(input.self, input.signals)

\* the column at which get_segments stopped: the first without segments
StoppedAt(columns, segments) ==
    columns[SetMin({i \in 1..Len(columns) : segments[columns[i]].first = <<>>})]

(* C14: when get_segments finds no peak sequence in the start partition or  *)
(* none in the end partition of a column, it raises ShakeMissingException   *)
(* and the message names the column and the segment, "first" or "second".   *)
C14_ShakeMissingNamesSegment ==
    (output # NotCalled /\ RaisedExc(output.outcome, "ShakeMissingException"))
        => /\ \E k \in DOMAIN output.outcome.message :
                 output.outcome.message[k]
                    = StoppedAt(input.signals.columns, output.segments)
           /\ \E k \in DOMAIN output.outcome.message :
                 output.outcome.message[k] \in {"first", "second"}

----------------------------------------------------------------------------
(* Claims about the extractor's configuration.                              *)

\* a threshold strictly between 0 and 1
InOpenUnit(value) == 0 < value[1] /\ value[1] < value[2]

C13_WindowsPositive ==
    /\ extractor.start_window_length > 0
    /\ extractor.end_window_length > 0
    /\ (Called("start_window_length") \/ Called("end_window_length"))
          => (Returned(last.outcome)
                <=> (last.arg.type = "Timedelta" /\ last.arg.ticks > 0))

----------------------------------------------------------------------------
(* Claims about the constructor.                                            *)

\* an entry lacks a key, its data is no table or its reference column is not
\* a column of the table
MalformedEntry(dict) ==
    \/ {"data", "ref_column"} \ DOMAIN dict # {}
    \/ dict["data"].type # "DataFrame"
    \/ dict["ref_column"] \notin DOMAIN dict["data"].columns

(* C15: the constructor raises whenever an entry of the sources is          *)
(* malformed or the reference source name is not one of the sources.        *)
C15_ConstructorValidates ==
    (/\ output # NotCalled
     /\ \/ \E i \in 1..Len(input.sources) : MalformedEntry(input.sources[i].dict)
        \/ input.reference_source_name
              \notin SeqToSet(SourceNames(input.sources)))
        => Raised(output)

----------------------------------------------------------------------------
(* Claims about save_data.                                                  *)

\* a custom table has a reserved name, or an entry names a source that does
\* not exist or a column its source does not have
InvalidTables(tables) ==
    \E i \in 1..Len(tables) :
        \/ tables[i].name \in {"SYNC", "TOTAL"}
        \/ \E j \in 1..Len(tables[i].spec) :
              \/ tables[i].spec[j].source \notin SeqToSet(SourceNames(sources))
              \/ SeqToSet(tables[i].spec[j].columns) \ SourceColumns # {}

(* C16: save_data raises ValueError and writes no file when a custom table  *)
(* is named SYNC or TOTAL or an entry names a source or a column that does  *)
(* not exist.                                                               *)
C16_SaveDataRejects ==
    (output # NotCalled /\ InvalidTables(input.tables))
        => /\ RaisedExc(output.outcome, "ValueError")
           /\ output.files = <<>>

----------------------------------------------------------------------------
(* Claims about the synchronized data.                                      *)

\* the minimum timestamp of the whole reference frame
Anchor == SetMin(ref_signals.index)

\* where timestamp t of a source with the parameters params goes: stretched
\* about the anchor (the product keeps whole ticks), then shifted
Synced(params, t) ==
    Anchor
      + TruncDiv((t - Anchor) * params["stretch_factor"][1],
                 params["stretch_factor"][2])
      + (IF params["timeshift"] = None THEN 0 ELSE params["timeshift"][1])

(* C17: when get_synced_data returns, the table of every source is its      *)
(* original table with every timestamp t replaced by                        *)
(* anchor + (t - anchor) * stretch_factor + timeshift, the anchor being the *)
(* minimum timestamp of the reference frame; no step changes the table a    *)
(* source stores.                                                           *)
C17_SyncedDataFormula ==
    [][/\ \A i \in 1..Len(sources) : sources'[i].data = sources[i].data
       /\ (last'.op = "get_synced_data" /\ Returned(last'.outcome))
             => \A i \in 1..Len(sources) :
                   LET params == sources'[i].params
                       data == sources[i].data
                       table == last'.outcome.returned[sources[i].name]
                   IN  /\ DOMAIN table = {Synced(params, t) : t \in DOMAIN data}
                       /\ \A t \in DOMAIN data :
                             table[Synced(params, t)] = data[t]]_vars

\* a source that starts after the anchor was stretched and shifted
C17_Witness ==
    /\ Called("get_synced_data")
    /\ Returned(last.outcome)
    /\ \E c \in DOMAIN last.outcome.returned :
          /\ ParamsOf(c)["stretch_factor"] # One
          /\ ParamsOf(c)["timeshift"] \notin {None, Timedelta(0)}
          /\ SetMin(DOMAIN DataOf(c)) # Anchor
          /\ DOMAIN last.outcome.returned[c]
                # {t + ParamsOf(c)["timeshift"][1] : t \in DOMAIN DataOf(c)}

----------------------------------------------------------------------------
(* Claims about the precision warning of the second pass.                   *)

\* the sources the second pass of the last call got through, each with the
\* difference of its two timeshifts after stretching
Residuals == {last.timedeltas[i] : i \in DOMAIN last.timedeltas}

\* the sources for which the last call logged the precision warning
Warned == SeqToSet(last.warnings)

\* C18: in the second pass a precision warning is logged for every
\* non-reference source whose two timeshifts after stretching differ, whatever
\* the sign of the difference, and the warning is not fatal: the timeshift of
\* the source is stored, and get_sync_params returns when the pass got
\* through every source.
C18_WarningEitherSign ==
    last # NotCalled =>
        /\ \A r \in Residuals :
              /\ r[2] # 0 => r[1] \in Warned
              /\ \E k \in DOMAIN last.writes : last.writes[k] = <<r[1], "timeshift">>
              /\ "timeshift" \in DOMAIN ParamsOf(r[1])
        /\ (/\ last.op = "get_sync_params"
            /\ {r[1] : r \in Residuals} = SeqToSet(SourceNames(sources))
                                              \ {ref_source_name})
              => Returned(last.outcome)

\* a warning was logged and the call returned all the same
C18_WarnedAndReturned ==
    /\ last # NotCalled
    /\ Warned # {}
    /\ Returned(last.outcome)

\* a source whose second timeshift is the larger one
C18_NegativeResidual ==
    /\ last # NotCalled
    /\ \E r \in Residuals : r[2] < 0
----------------------------------------------------------------------------
(* Claims about stretch_signals.                                            *)

\* the start time the call works with
StartOf(call) ==
    IF call.start_time = None THEN SetMin(DOMAIN call.source)
    ELSE call.start_time[1]

\* u is start + (t - start) * factor exactly
StretchedExactly(call, t, u) ==
    (u - StartOf(call)) * call.factor[2] = (t - StartOf(call)) * call.factor[1]

\* u is start + (t - start) * factor with the product cut to a whole tick:
\* not farther from start than the exact value, and less than a tick short
StretchedToTick(call, t, u) ==
    LET exact == (t - StartOf(call)) * call.factor[1]
        got == (u - StartOf(call)) * call.factor[2]
    IN  /\ Abs(got) <= Abs(exact)
        /\ Abs(exact) - Abs(got) < call.factor[2]
        /\ got # 0 => Sign(got) = Sign(exact)

\* the row of the result that the row at t has become
RowOf(call, table, t) ==
    CHOOSE u \in DOMAIN table : table[u] = call.source[t]

\* the relations of the claim that need no exact product: a copy, a fixed
\* point at start_time, equality for factor 1, twice the distance for
\* factor 2, the order kept for a positive factor
StretchRelations(call, table) ==
    /\ output.source = call.source
    /\ Cardinality(DOMAIN table) = Cardinality(DOMAIN call.source)
    /\ \A t \in DOMAIN call.source : \E u \in DOMAIN table :
            table[u] = call.source[t]
    /\ StartOf(call) \in DOMAIN call.source
            => RowOf(call, table, StartOf(call)) = StartOf(call)
    /\ call.factor = One => table = call.source
    /\ call.factor = <<2, 1>>
            => SetMax(DOMAIN table) - StartOf(call)
                  = 2 * (SetMax(DOMAIN call.source) - StartOf(call))
    /\ call.factor[1] > 0
            => \A t, v \in DOMAIN call.source :
                  t < v => RowOf(call, table, t) < RowOf(call, table, v)

\* C19: stretch_signals returns a new table, the one handed in left as it
\* was, in which every timestamp t has become
\* start_time + (t - start_time) * factor (a whole tick, as timestamps are):
\* start_time is a fixed point, factor 1 gives an equal table, factor 2
\* doubles the distance of the last timestamp from start_time and a positive
\* factor keeps the order of rows.
C19_StretchSignals ==
    output # NotCalled =>
        /\ Returned(output.outcome)
        /\ StretchRelations(input, output.outcome.returned)
        /\ \A t \in DOMAIN input.source :
              StretchedToTick(input, t,
                              RowOf(input, output.outcome.returned, t))

\* C19, amended: the call raises ValueError, the table handed in left as it
\* was, exactly when two timestamps would become the same tick (factor 0 on
\* a table of several rows, or a factor below 1 on neighbouring ticks);
\* otherwise it returns a new table with the relations of the claim.
C19_StretchSignalsToTick ==
    output # NotCalled =>
        LET span == (MaxLen + MaxStart + 1) * 2
            ticks == (StartOf(input) - span)..(StartOf(input) + span)
            collide == \E t, v \in DOMAIN input.source :
                          /\ t # v
                          /\ \E u \in ticks : /\ StretchedToTick(input, t, u)
                                               /\ StretchedToTick(input, v, u)
        IN  /\ Raised(output.outcome) <=> collide
            /\ Raised(output.outcome)
                => /\ output.outcome = Raise("ValueError")
                   /\ output.source = input.source
            /\ Returned(output.outcome)
                => /\ StretchRelations(input, output.outcome.returned)
                   /\ \A t \in DOMAIN input.source :
                         StretchedToTick(input, t,
                             RowOf(input, output.outcome.returned, t))

\* a table of several rows stretched by a factor that is not a whole number
\* comes back with a timestamp cut to a tick
C19_Witness ==
    /\ output # NotCalled
    /\ Returned(output.outcome)
    /\ Cardinality(DOMAIN input.source) > 1
    /\ input.factor[2] > 1
    /\ output.source = input.source
    /\ \E t \in DOMAIN input.source :
          ~StretchedExactly(input, t, RowOf(input, output.outcome.returned, t))
----------------------------------------------------------------------------
(* Claims about get_equidistant_signals.                                    *)

\* value is the value of a sample of series nearest to the time t
OfNearestSample(series, t, value) ==
    \E u \in DOMAIN series :
        /\ series[u] = value
        /\ \A v \in DOMAIN series : Abs(u - t) <= Abs(v - t)

\* the rows of a column that carry a value follow each other without a gap
Consecutive(rows) == rows = SetMin(rows)..SetMax(rows)

\* C20: for every frame and frequency get_equidistant_signals returns a
\* frame on the grid of step 1 / f that starts at the earliest timestamp of
\* the input and does not go beyond its latest; every value of a column is
\* the value of the nearest sample of that column in the input, and every
\* column has the frequency f.
C20_EquidistantGrid ==
    output # NotCalled =>
        /\ Returned(output)
        /\ LET frame == output.returned
               signals == input.signals
           IN  /\ frame.n >= 1
               /\ frame.period = input.period
               /\ frame.start = SetMin(signals.index)
               /\ TimeAt(frame, frame.n - 1) <= SetMax(signals.index)
               /\ \A c \in SeqToSet(signals.columns) :
                     /\ DOMAIN frame.data[c] \subseteq 0..(frame.n - 1)
                     /\ DOMAIN frame.data[c] # {}
                     /\ Consecutive(DOMAIN frame.data[c])
                     /\ \A k \in DOMAIN frame.data[c] :
                           OfNearestSample(signals.data[c], TimeAt(frame, k),
                                           frame.data[c][k])
----------------------------------------------------------------------------
(* Claims about the cache of the parameters.                                *)

\* both parameters of every source are stored
Solved(srcs) ==
    \A i \in 1..Len(srcs) :
        {"stretch_factor", "timeshift"} \subseteq DOMAIN srcs[i].params

\* C30: a failed calculation is never served from the cache: whenever
\* get_sync_params returns, the entry of every source has a stretch_factor
\* and a timeshift, and whenever get_synced_data returns, every source has
\* both parameters stored.
C30_NoPartialParams ==
    /\ (/\ last # NotCalled
        /\ last.op = "get_sync_params"
        /\ Returned(last.outcome))
          => \A name \in DOMAIN last.outcome.returned :
                {"stretch_factor", "timeshift"}
                    \subseteq DOMAIN last.outcome.returned[name]
    /\ (/\ last # NotCalled
        /\ last.op = "get_synced_data"
        /\ Returned(last.outcome))
          => Solved(sources)
----------------------------------------------------------------------------
(* Claims about the writes of the parameters.                               *)

\* C29: over any sequence of get_sync_params and get_synced_data calls each
\* parameter of each source is written exactly once: no call writes a key
\* that is stored already or writes a key twice, and the stored parameters
\* change through the writes of the calculation only.
C29_WrittenOnce ==
    [][/\ \A k \in DOMAIN last'.writes :
             /\ last'.writes[k][2] \notin DOMAIN ParamsOf(last'.writes[k][1])
             /\ \A m \in DOMAIN last'.writes :
                   last'.writes[m] = last'.writes[k] => m = k
       /\ \A i \in 1..Len(sources) :
             sources'[i].params # sources[i].params
                => \E k \in DOMAIN last'.writes :
                      last'.writes[k][1] = sources[i].name]_vars
----------------------------------------------------------------------------
(* Claims about the timeshift that is stored.                               *)

\* the sources for which the last call stored a timeshift, the reference apart
ShiftedSources ==
    {c \in SeqToSet(SourceNames(sources)) \ {ref_source_name} :
        \E k \in DOMAIN last.writes : last.writes[k] = <<c, "timeshift">>}

\* the two lags of column c on a frame resampled and segmented anew
LagsOn(frame, c) ==
    Let(get_equidistant_signals(frame, sampling_freq), LAMBDA df_equi :
        _get_timeshift_pair(df_equi.returned, ref_source_name, c,
                            get_segments(extractor, df_equi.returned)
                                .outcome.returned))

\* the lags of the first pass: on the reference frame as it was built
Pass1Lags(c) == LagsOn(ref_signals, c)

\* the lags of the second pass: on the frame in which every column is
\* stretched by the stretch factor stored for it
Pass2Lags(c) == LagsOn(StretchedBefore(Self), c)

\* the timeshift stored for every source is the lag of its first segment on
\* the stretched frame
StoresPass2First ==
    \A c \in ShiftedSources :
        ParamsOf(c)["timeshift"] = Timedelta(Pass2Lags(c).returned.first)

\* in the writes of the last call, every stretch factor comes before every
\* timeshift of the sources in among
FactorsBeforeShifts(among) ==
    \A k, m \in DOMAIN last.writes :
        (/\ last.writes[k][2] = "stretch_factor"
         /\ last.writes[m][2] = "timeshift"
         /\ last.writes[m][1] \in among) => k < m

----------------------------------------------------------------------------
(* Claims about the SyncPairs that get_segments returns.                    *)

\* C21: whenever get_segments returns, the SyncPairs has for every column of
\* the frame both segments with both timestamps, each segment with
\* start <= end, and the first segment starts before the second.
C21_SyncPairsWellFormed ==
    (output # NotCalled /\ Returned(output.outcome)) =>
        LET segments == output.outcome.returned
        IN  /\ DOMAIN segments = SeqToSet(input.signals.columns)
            /\ \A c \in DOMAIN segments :
                  /\ DOMAIN segments[c] = {"first", "second"}
                  /\ \A segment \in {"first", "second"} :
                        /\ DOMAIN segments[c][segment] = {"start", "end"}
                        /\ segments[c][segment].start <= segments[c][segment].end
                  /\ segments[c].first.start < segments[c].second.start
----------------------------------------------------------------------------
(* Claims about the detection in one column.                                *)

\* the lists of a list of lists, one after the other
RECURSIVE Flatten(_)
Flatten(seqs) ==
    IF seqs = <<>> THEN <<>> ELSE Head(seqs) \o Flatten(Tail(seqs))

\* the positions in the flattened list at which a list of seqs begins
FirstPositions(seqs) ==
    {Len(Flatten(SubSeq(seqs, 1, k - 1))) + 1 : k \in 1..Len(seqs)}

\* the time of the peak at row p of the frame of the call
PeakTime(p) == TimeAt(input.signals, p)

\* the two windows of the column share more than one row
WindowsOverlap == output.end_window < output.start_window

\* C22: _merge_peak_sequences splits the list of peaks into maximal runs:
\* the sequences, one after the other, are the list of peaks, no peak is
\* there twice, the peaks of a sequence are in increasing order of time, and
\* two neighbours of the list are in one sequence exactly when the later is
\* at most distance after the earlier.
C22_MaximalRuns ==
    output # NotCalled =>
        LET peaks == output.peaks
            sequences == output.sequences
        IN  /\ Flatten(sequences) = peaks
            /\ \A k \in 1..Len(sequences) : sequences[k] # <<>>
            /\ \A i, j \in 1..Len(peaks) : peaks[i] = peaks[j] => i = j
            /\ \A k \in 1..Len(sequences) :
                  \A i \in 1..(Len(sequences[k]) - 1) :
                      PeakTime(sequences[k][i]) < PeakTime(sequences[k][i + 1])
            /\ \A i \in 1..(Len(peaks) - 1) :
                  ((i + 1) \notin FirstPositions(sequences))
                    <=> PeakTime(peaks[i + 1]) - PeakTime(peaks[i])
                            <= input.self.distance
\* the sequences of peak_sequences that are in neither list
Dropped ==
    {k \in 1..Len(output.peak_sequences) :
        /\ \A i \in 1..Len(output.start_shakes) :
              output.start_shakes[i] # output.peak_sequences[k]
        /\ \A i \in 1..Len(output.end_shakes) :
              output.end_shakes[i] # output.peak_sequences[k]}

\* C23: a sequence that passed the filter of min_length is a start shake if
\* its first peak is before the boundary of the start window, it is an end
\* shake if its last peak is after the boundary of the end window, and it is
\* dropped only if neither holds.
C23_Partition ==
    output # NotCalled =>
        \A k \in 1..Len(output.peak_sequences) :
            LET seq == output.peak_sequences[k]
                before == PeakTime(seq[1]) < output.start_window
                after == PeakTime(seq[Len(seq)]) > output.end_window
            IN  /\ Len(seq) >= input.self.min_length
                /\ before => \E i \in 1..Len(output.start_shakes) :
                                 output.start_shakes[i] = seq
                /\ after => \E i \in 1..Len(output.end_shakes) :
                                output.end_shakes[i] = seq
                /\ k \in Dropped => (~before /\ ~after)
\* the column of the call, and the times of its first and last valid sample
Column == input.signals.data[input.column]
FirstValid == TimeAt(input.signals, SetMin(DOMAIN Column))
LastValid == TimeAt(input.signals, SetMax(DOMAIN Column))

\* row p of the column is a local maximum at least as high as the threshold
HighLocalMaximum(p) ==
    /\ {p - 1, p, p + 1} \subseteq DOMAIN Column
    /\ Column[p - 1] <= Column[p]
    /\ Column[p + 1] <= Column[p]
    /\ Column[p] * input.self.threshold[2]
          >= input.self.threshold[1] * input.signals.den[input.column]

InStartWindow(p) ==
    /\ FirstValid <= PeakTime(p)
    /\ PeakTime(p) <= FirstValid + input.self.start_window_length

InEndWindow(p) ==
    /\ LastValid - input.self.end_window_length <= PeakTime(p)
    /\ PeakTime(p) <= LastValid

\* C24: every peak the extractor uses is a local maximum of the column, at
\* least as high as the threshold, at its own row of the frame, and lies in
\* the start window (a peak of the start part) or in the end window (a peak
\* of the end part): no sample strictly between the windows is a peak.
C24_PeaksInWindows ==
    output # NotCalled =>
        /\ \A i \in 1..Len(output.peaks_start) :
              /\ HighLocalMaximum(output.peaks_start[i])
              /\ InStartWindow(output.peaks_start[i])
        /\ \A i \in 1..Len(output.peaks_end) :
              /\ HighLocalMaximum(output.peaks_end[i])
              /\ InEndWindow(output.peaks_end[i])
        /\ \A k \in 1..Len(output.peak_sequences) :
              \A i \in 1..Len(output.peak_sequences[k]) :
                  output.peak_sequences[k][i]
                      \in SeqToSet(output.peaks_start)
                            \cup SeqToSet(output.peaks_end)

\* a column with a high local maximum strictly between its windows, which is
\* not a peak, and a peak in the end window
C24_Witness ==
    /\ output # NotCalled
    /\ output.peaks_end # <<>>
    /\ output.peaks_start # <<>>
    /\ \E p \in DOMAIN Column :
          /\ HighLocalMaximum(p)
          /\ ~InStartWindow(p)
          /\ ~InEndWindow(p)
          /\ p \notin SeqToSet(output.peaks)
\* the sequences among which the segment is chosen
ShakesOf(segment) ==
    IF segment = "first" THEN output.start_shakes ELSE output.end_shakes

\* weight(a) <= weight(b), the weight being median + mean of the peak values
NotHeavier(a, b) ==
    _get_shake_weight(Column, a) * Len(b) <= _get_shake_weight(Column, b) * Len(a)

\* C25: the sequence chosen for a segment is one of its partition, has at
\* least min_length peaks and the greatest weight of the partition, and of
\* the sequences of that weight it is the earliest in time.
C25_HeaviestEarliest ==
    (output # NotCalled /\ Returned(output.outcome)) =>
        \A segment \in {"first", "second"} :
            LET best_shake == output.best_shakes[segment]
                shakes == ShakesOf(segment)
            IN  /\ \E i \in 1..Len(shakes) : shakes[i] = best_shake
                /\ Len(best_shake) >= input.self.min_length
                /\ \A i \in 1..Len(shakes) :
                      /\ NotHeavier(shakes[i], best_shake)
                      /\ NotHeavier(best_shake, shakes[i])
                            => PeakTime(best_shake[1]) <= PeakTime(shakes[i][1])

\* a partition with two sequences of the greatest weight and a lighter one
\* before them
C25_Witness ==
    /\ output # NotCalled
    /\ Returned(output.outcome)
    /\ ~WindowsOverlap
    /\ \E segment \in {"first", "second"} :
          LET best_shake == output.best_shakes[segment]
              shakes == ShakesOf(segment)
          IN  \E i, j \in 1..Len(shakes) :
                /\ shakes[i] # best_shake
                /\ NotHeavier(best_shake, shakes[i])
                /\ ~NotHeavier(best_shake, shakes[j])
                /\ PeakTime(shakes[j][1]) < PeakTime(best_shake[1])
\* the timestamps of the frame of the call
FrameTimes ==
    {TimeAt(input.signals, k) : k \in 0..(input.signals.n - 1)}

\* t is a timestamp of the frame and none is nearer to the time wanted
NearestFrameTime(t, wanted) ==
    /\ t \in FrameTimes
    /\ \A u \in FrameTimes : Abs(t - wanted) <= Abs(u - wanted)

\* C26: the segment of the chosen sequence starts at the frame timestamp
\* nearest to its first peak minus time_buffer and ends at the frame
\* timestamp nearest to its last peak plus time_buffer (the first or last
\* timestamp of the frame when that time is outside it), and
\* start <= first peak <= last peak <= end.
C26_SegmentBounds ==
    (output # NotCalled /\ Returned(output.outcome)) =>
        \A segment \in {"first", "second"} :
            LET best_shake == output.best_shakes[segment]
                first_peak == PeakTime(best_shake[1])
                last_peak == PeakTime(best_shake[Len(best_shake)])
                found == output.outcome.returned[segment]
            IN  /\ NearestFrameTime(found.start,
                                    first_peak - input.self.time_buffer)
                /\ NearestFrameTime(found.end,
                                    last_peak + input.self.time_buffer)
                /\ found.start <= first_peak
                /\ first_peak <= last_peak
                /\ last_peak <= found.end
----------------------------------------------------------------------------
(* Claims about the timeshift of a pair of segments.                        *)

\* the rows of a column from the start to the end of a segment, as a sequence
\* of [valid, v]
SliceOf(col, segment) ==
    LET found == input.segments[col][segment]
        lo == (found.start - input.dataframe.start) \div input.dataframe.period
        hi == (found.end - input.dataframe.start) \div input.dataframe.period
        rows == input.dataframe.data[col]
    IN  [i \in 1..(hi - lo + 1) |->
            IF (lo + i - 1) \in DOMAIN rows
            THEN [valid |-> TRUE, v |-> rows[lo + i - 1]]
            ELSE [valid |-> FALSE, v |-> 0]]

\* the cross-correlation of two slices at lag m: the sum of ref[i + m] * sig[i]
\* over the rows where both exist, not a number when one of them is missing
CorrelationAt(ref, sig, m) ==
    LET both == {i \in 1..Len(sig) : (i + m) \in 1..Len(ref)}
    IN  [nan |-> \E i \in both : ~ref[i + m].valid \/ ~sig[i].valid,
         v |-> SumSeq([i \in 1..Len(sig) |->
                         IF i \in both /\ ref[i + m].valid /\ sig[i].valid
                         THEN ref[i + m].v * sig[i].v ELSE 0])]

\* k of a segment: the first lag that argmax picks, counted from
\* -(len(target slice) - 1)
LagOf(segment) ==
    LET ref == SliceOf("A", segment)
        sig == SliceOf("B", segment)
        lags == (1 - Len(sig))..(Len(ref) - 1)
        nans == {m \in lags : CorrelationAt(ref, sig, m).nan}
    IN  IF nans # {} THEN SetMin(nans)
        ELSE SetMin({m \in lags : \A o \in lags :
                        CorrelationAt(ref, sig, o).v <= CorrelationAt(ref, sig, m).v})

\* stepping k samples from the start of the reference segment stays on the grid
StaysOnGrid(segment) ==
    LET stepped == input.segments["A"][segment].start
                       + LagOf(segment) * input.dataframe.period
    IN  /\ stepped >= input.dataframe.start
        /\ stepped <= input.dataframe.start
                          + (input.dataframe.n - 1) * input.dataframe.period

\* C27: whenever _get_timeshift_pair returns, the timeshift of each of "first"
\* and "second" is (reference segment start + k sampling periods) - (target
\* segment start), k being argmax(cross-correlation) - (len(target slice) - 1),
\* and stepping k samples from the reference segment's start stayed on the
\* grid of the frame: no timestamp from elsewhere in the grid is used.
C27_TimeshiftOfLag ==
    (output # NotCalled /\ Returned(output)) =>
        \A segment \in {"first", "second"} :
            /\ StaysOnGrid(segment)
            /\ output.returned[segment] =
                   input.segments["A"][segment].start
                       + LagOf(segment) * input.dataframe.period
                       - input.segments["B"][segment].start

\* the same for the calls in which every step stays on the grid
C27_TimeshiftOfLagOnGrid ==
    (/\ output # NotCalled
     /\ \A segment \in {"first", "second"} : StaysOnGrid(segment)) =>
        /\ Returned(output)
        /\ \A segment \in {"first", "second"} :
               output.returned[segment] =
                   input.segments["A"][segment].start
                       + LagOf(segment) * input.dataframe.period
                       - input.segments["B"][segment].start

\* a step before the first row of the grid, and the call returned
C27_SteppedBeforeGrid ==
    /\ output # NotCalled
    /\ Returned(output)
    /\ \E segment \in {"first", "second"} :
           input.segments["A"][segment].start
               + LagOf(segment) * input.dataframe.period < input.dataframe.start

\* negative and positive lags in returning calls
C27_NegativeLag ==
    /\ output # NotCalled
    /\ Returned(output)
    /\ \A segment \in {"first", "second"} : StaysOnGrid(segment)
    /\ \E segment \in {"first", "second"} : LagOf(segment) < 0

C27_PositiveLag ==
    /\ output # NotCalled
    /\ Returned(output)
    /\ \A segment \in {"first", "second"} : StaysOnGrid(segment)
    /\ \E segment \in {"first", "second"} : LagOf(segment) > 0

====
